---- MODULE Spec2Model ----
(***************************************************************************)
(* SOILWAT daily hydrothermal engine (SW_Flow_lib.c): canopy and litter    *)
(* interception, the soil-water steps, the frozen-layer flags and the      *)
(* soil-temperature routine, as state machines over exact rationals.       *)
(*                                                                         *)
(* Numbers.  The C code computes in double.  A double is modelled as a     *)
(* pair <<n, d>>: the rational n/d in lowest terms with d > 0, or one of   *)
(* the IEEE specials <<0,0>> (NaN), <<1,0>> (+inf), <<-1,0>> (-inf).  The  *)
(* comparison macros LT/GT/LE/GE/EQ/ZRO of generic.h compare with a        *)
(* tolerance of a few ulps; every value of the model lies on a grid far    *)
(* coarser than that, so they are modelled as the exact comparisons.       *)
(***************************************************************************)
EXTENDS Integers, Sequences, FiniteSets, TLC

----------------------------------------------------------------------------
(* double arithmetic *)

Abs(x) == IF x < 0 THEN -x ELSE x

Sgn(x) == IF x < 0 THEN -1 ELSE IF x > 0 THEN 1 ELSE 0

RECURSIVE GCD(_, _)
GCD(a, b) == IF b = 0 THEN a ELSE GCD(b, a % b)

\* n/d as a double: lowest terms, positive denominator; x/0 is +-inf, 0/0 is NaN
RNorm(n, d) ==
    IF d = 0 THEN <<Sgn(n), 0>>
    ELSE LET g == GCD(Abs(n), Abs(d))
             s == Sgn(d)
         IN  <<(s * n) \div g, (s * d) \div g>>

NaN == <<0, 0>>
Zero == <<0, 1>>
One == <<1, 1>>
IsNaN(x) == x = NaN
IsFinite(x) == x[2] # 0

RNeg(x) == <<-x[1], x[2]>>

\* the sum over the least common denominator, so that products stay small
RAdd(x, y) ==
    IF x[2] = 0 /\ y[2] = 0 THEN (IF x = y THEN x ELSE NaN)
    ELSE IF x[2] = 0 THEN x
    ELSE IF y[2] = 0 THEN y
    ELSE LET g == GCD(x[2], y[2])
         IN RNorm(x[1] * (y[2] \div g) + y[1] * (x[2] \div g), (x[2] \div g) * y[2])

RSub(x, y) == RAdd(x, RNeg(y))

\* the product, with the common factors removed crosswise before multiplying
RMul(x, y) ==
    IF x[2] = 0 \/ y[2] = 0 THEN RNorm(x[1] * y[1], 0)
    ELSE LET g1 == GCD(Abs(x[1]), y[2])
             g2 == GCD(Abs(y[1]), x[2])
         IN RNorm((x[1] \div g1) * (y[1] \div g2), (x[2] \div g2) * (y[2] \div g1))

RInv(x) == RNorm(x[2], x[1])

RDiv(x, y) == RMul(x, RInv(y))

\* x < y in double: false when either side is NaN
RLess(x, y) ==
    IF IsNaN(x) \/ IsNaN(y) THEN FALSE
    ELSE IF x[2] = 0 /\ y[2] = 0 THEN x[1] < y[1]
    ELSE IF x[2] = 0 THEN x[1] < 0
    ELSE IF y[2] = 0 THEN y[1] > 0
    ELSE LET g == GCD(x[2], y[2])
         IN x[1] * (y[2] \div g) < y[1] * (x[2] \div g)

REqual(x, y) == ~IsNaN(x) /\ ~IsNaN(y) /\ x = y

\* the comparison macros of generic.h
LT(x, y) == RLess(x, y)
GT(x, y) == RLess(y, x)
EQ(x, y) == REqual(x, y)
LE(x, y) == RLess(x, y) \/ REqual(x, y)
GE(x, y) == RLess(y, x) \/ REqual(x, y)
ZRO(x) == REqual(x, Zero)

\* fmin and fmax of math.h: a NaN argument is ignored
fmin(x, y) == IF IsNaN(x) THEN y ELSE IF IsNaN(y) THEN x ELSE IF RLess(y, x) THEN y ELSE x
fmax(x, y) == IF IsNaN(x) THEN y ELSE IF IsNaN(y) THEN x ELSE IF RLess(x, y) THEN y ELSE x

\* an integer as a double
I(n) == <<n, 1>>

----------------------------------------------------------------------------
(* State *)

VARIABLES
    icpt,       \* interception: the last call (function, arguments) and its two outputs
    snowCall,   \* surface_temperature_under_snow: the last call and its return value
    pc,         \* the position in the sequence of calls
    site,       \* SW_Site: the soil profile (layer count and per-layer constants)
    swc,        \* soil water content per layer [cm]
    sTemp,      \* soil temperature per layer [C]
    lyrFrozen,  \* stValues.lyrFrozen: the frozen flag per layer
    stValues,   \* the other arrays of the static struct stValues
    soil_temp_error,    \* global latch: an error of the soil temperature was reported
    soil_temp_init,     \* global latch: soil_temperature_init was called
    fusion_pool_init,   \* global latch: the fusion pools were initialised
    surfaceTemp,        \* surfaceTemp[Yesterday], surfaceTemp[Today]
    day,        \* the number of calls of the routine under study made so far
    wth,        \* the daily inputs of the last soil_temperature call
    flow,       \* the water engine: the day's inputs, the outputs of its steps
                \* and the caller's copy of yesterday's water content
    SW_Markov,  \* the stored parameters of the weather generator
    mkv,        \* the weather generator: its position, the caller's tmax, tmin
                \* and rain, and the locals of the last SW_MKV_today call
    sites       \* the sites a driver runs in one process: each one's own
                \* profile, arrays and inputs

tempVars == <<stValues, soil_temp_error, soil_temp_init, fusion_pool_init, surfaceTemp>>

markovVars == <<SW_Markov, mkv>>

vars == <<icpt, snowCall, pc, site, swc, sTemp, lyrFrozen, tempVars, day, wth, flow,
          markovVars, sites>>

engineVars == <<pc, site, swc, sTemp, lyrFrozen, tempVars, day, wth, flow>>

\* the layer indices of an array of n elements
Lyrs(n) == 0 .. (n - 1)

\* Times.h
Yesterday == 0
Today == 1

\* the largest soil profile and the largest temperature grid of the
\* soil-temperature specifications, the largest soil profile of the day
MaxLyrs == 2
MaxRgr == 2
MaxFlowLyrs == 3

\* the index ranges of the static arrays of stValues (MAX_LAYERS + 1 columns,
\* MAX_ST_RGR + 1 rows in the code); the rows go two past the largest nRgr as
\* lyrTemp_to_lyrSoil_temperature can step that far
LyrIdx == 0 .. MaxFlowLyrs
RgrIdx == 0 .. (MaxRgr + 2)

\* stValues as the loader leaves it: static storage, all zero
StZero ==
    [depths |-> [j \in LyrIdx |-> Zero],
     depthsR |-> [i \in RgrIdx |-> Zero],
     fcR |-> [i \in RgrIdx |-> Zero],
     wpR |-> [i \in RgrIdx |-> Zero],
     bDensityR |-> [i \in RgrIdx |-> Zero],
     oldsFusionPool_actual |-> [j \in LyrIdx |-> Zero],
     oldsTempR |-> [i \in RgrIdx |-> Zero],
     tlyrs_by_slyrs |-> [i \in RgrIdx |-> [j \in LyrIdx |-> Zero]]]

\* the daily inputs of soil_temperature before its first call
NoWeather == [airTemp |-> Zero, pet |-> One, aet |-> Zero, biomass |-> Zero,
              snowdepth |-> Zero, snow |-> Zero]

\* the water engine before its first day: no input, no flux
FlowIdle ==
    [pptleft |-> Zero, evapRate |-> Zero, transpRate |-> Zero,
     airTemp |-> Zero, pet |-> One, biomass |-> Zero, snowdepth |-> Zero,
     snow |-> Zero,
     standingWater |-> Zero, drainout |-> Zero, aet |-> Zero,
     drain |-> <<>>, evap |-> <<>>, transp |-> <<>>, hydred |-> <<>>,
     swcBehind |-> Zero, swcBefore |-> <<>>]

\* the soil-temperature state while a specification of another part runs
TempIdle ==
    /\ stValues = StZero
    /\ soil_temp_error = 0
    /\ soil_temp_init = 0
    /\ fusion_pool_init = 0
    /\ surfaceTemp = [d \in {Yesterday, Today} |-> Zero]
    /\ day = 0
    /\ wth = NoWeather

\* the engine's variables while a specification of the interception or snow
\* functions runs: they are not touched
EngineIdle ==
    /\ pc = "idle"
    /\ site = [nlyrs |-> 0]
    /\ swc = <<>>
    /\ sTemp = <<>>
    /\ lyrFrozen = <<>>
    /\ TempIdle
    /\ flow = FlowIdle

\* the weather generator and the driver of several sites while a specification
\* of another part runs: nothing is constructed, no site is registered
OthersIdle ==
    /\ SW_Markov = <<>>
    /\ mkv = [status |-> "none"]
    /\ sites = <<>>

----------------------------------------------------------------------------
(* Interception (SW_Flow_lib.c 165-316) *)

\* the interception pools' caps (SW_Defines.h macros over the caller's locals)
MAX_WINTSTCR(vegcov) == RMul(vegcov, <<1, 10>>)
MAX_WINTFOR(ppt) == ppt
MAX_WINTLIT(blitter) == RMul(blitter, <<1, 5>>)

\* the common body of grass_, shrub_, tree_ and forb_intercepted_water:
\* <<pptleft, wint>> for precipitation ppt, cover cov and pool cap maxpool
CanopyIntercepted(ppt, cov, scale, a, b, c, d, maxpool) ==
    IF GT(cov, Zero) /\ GT(ppt, Zero)
    THEN LET intcpt == RAdd(RMul(b, cov), a)
             slope == RAdd(RMul(d, cov), c)
             w0 == RMul(RAdd(intcpt, RMul(slope, ppt)), scale)
             w1 == fmin(w0, ppt)
             w2 == fmin(w1, maxpool)
         IN  <<fmax(RSub(ppt, w2), Zero), w2>>
    ELSE <<ppt, Zero>>

grass_intercepted_water(ppt, vegcov, scale, a, b, c, d) ==
    CanopyIntercepted(ppt, vegcov, scale, a, b, c, d, MAX_WINTSTCR(vegcov))

shrub_intercepted_water(ppt, vegcov, scale, a, b, c, d) ==
    CanopyIntercepted(ppt, vegcov, scale, a, b, c, d, MAX_WINTSTCR(vegcov))

tree_intercepted_water(ppt, LAI, scale, a, b, c, d) ==
    CanopyIntercepted(ppt, LAI, scale, a, b, c, d, MAX_WINTFOR(ppt))

forb_intercepted_water(ppt, vegcov, scale, a, b, c, d) ==
    CanopyIntercepted(ppt, vegcov, scale, a, b, c, d, MAX_WINTSTCR(vegcov))

\* litter_intercepted_water: pptleft is in/out, wintlit is out
litter_intercepted_water(pptleft, blitter, scale, a, b, c, d) ==
    IF ZRO(blitter) THEN <<pptleft, Zero>>
    ELSE IF GT(pptleft, Zero)
    THEN LET intcpt == RAdd(RMul(b, blitter), a)
             slope == RAdd(RMul(d, blitter), c)
             w0 == RMul(RAdd(intcpt, RMul(slope, pptleft)), scale)
             w1 == fmin(pptleft, w0)
             w2 == fmin(w1, MAX_WINTLIT(blitter))
         IN  <<fmax(RSub(pptleft, w2), Zero), w2>>
    ELSE <<Zero, Zero>>

\* inputs of the interception calls
PptSet == {Zero, <<1, 2>>, I(2)}
CovSet == {Zero, I(1), I(30)}
ScaleSet == {Zero, <<1, 2>>, One}
ParamASet == {<<-1, 10>>, <<1, 50>>}
ParamBSet == {Zero, <<1, 100>>}
ParamCSet == {<<-1, 2>>, <<1, 100>>}
ParamDSet == {Zero, <<1, 100>>}
CanopyFns == {"grass", "shrub", "tree", "forb"}

CanopyResult(fn, ppt, cov, scale, a, b, c, d) ==
    CASE fn = "grass" -> grass_intercepted_water(ppt, cov, scale, a, b, c, d)
      [] fn = "shrub" -> shrub_intercepted_water(ppt, cov, scale, a, b, c, d)
      [] fn = "tree" -> tree_intercepted_water(ppt, cov, scale, a, b, c, d)
      [] fn = "forb" -> forb_intercepted_water(ppt, cov, scale, a, b, c, d)

\* a canopy interception call on today's precipitation, with the drawn arguments
CanopyCall ==
    /\ icpt.fn = "none"
    /\ \E fn \in CanopyFns :
        LET r == CanopyResult(fn, icpt.pptIn, icpt.cov, icpt.scale,
                              icpt.a, icpt.b, icpt.c, icpt.d)
        IN  icpt' = [icpt EXCEPT !.fn = fn, !.pptleft = r[1], !.wint = r[2]]
    /\ UNCHANGED <<markovVars, sites, snowCall, engineVars>>

\* the litter call that follows: it takes the pptleft the canopy call left
LitterCall ==
    /\ icpt.fn \in CanopyFns
    /\ \E blitter \in CovSet, scale \in ScaleSet :
        LET r == litter_intercepted_water(icpt.pptleft, blitter, scale,
                                          icpt.a, icpt.b, icpt.c, icpt.d)
        IN  icpt' = [icpt EXCEPT !.fn = "litter", !.pptIn = icpt.pptleft,
                                 !.cov = blitter, !.scale = scale,
                                 !.pptleft = r[1], !.wint = r[2]]
    /\ UNCHANGED <<markovVars, sites, snowCall, engineVars>>

SnowIdle == [called |-> FALSE, airTempAvg |-> Zero, snow |-> Zero, tSoilAvg |-> Zero]

\* the arguments of the canopy call are drawn; nothing has been intercepted yet
InitIntercept ==
    /\ OthersIdle
    /\ \E ppt \in PptSet, cov \in CovSet, scale \in ScaleSet,
          a \in ParamASet, b \in ParamBSet, c \in ParamCSet, d \in ParamDSet :
        icpt = [fn |-> "none", pptIn |-> ppt, cov |-> cov, scale |-> scale,
                a |-> a, b |-> b, c |-> c, d |-> d,
                pptleft |-> ppt, wint |-> Zero]
    /\ snowCall = SnowIdle
    /\ EngineIdle

NextIntercept == CanopyCall \/ LitterCall

SpecIntercept == InitIntercept /\ [][NextIntercept]_vars

----------------------------------------------------------------------------
(* surface_temperature_under_snow (SW_Flow_lib.c 1341-1356) *)

\* surface_temperature_under_snow without the fmax that keeps kSnow >= 0
surface_temperature_under_snow_noclamp(airTempAvg, snow, junk) ==
    IF EQ(snow, Zero) THEN Zero
    ELSE IF GT(snow, Zero) /\ GE(airTempAvg, Zero) THEN I(-2)
    ELSE IF GT(snow, Zero) /\ LT(airTempAvg, Zero)
    THEN LET kSnow == RAdd(RMul(<<-15, 100>>, snow), One)
         IN  RAdd(RMul(RMul(<<3, 10>>, airTempAvg), kSnow), I(-2))
    ELSE junk

\* tSoilAvg is returned uninitialised when no branch assigns it (snow < 0, or a
\* NaN argument): junk is the value the stack slot then holds
surface_temperature_under_snow(airTempAvg, snow, junk) ==
    IF EQ(snow, Zero) THEN Zero
    ELSE IF GT(snow, Zero) /\ GE(airTempAvg, Zero) THEN I(-2)
    ELSE IF GT(snow, Zero) /\ LT(airTempAvg, Zero)
    THEN LET kSnow == fmax(RAdd(RMul(<<-15, 100>>, snow), One), Zero)
         IN  RAdd(RMul(RMul(<<3, 10>>, airTempAvg), kSnow), I(-2))
    ELSE junk

\* inputs: air temperatures -MaxAirTemp .. MaxAirTemp in half degrees, and snow
\* water equivalents around the point 1/0.15 where kSnow reaches 0
MaxAirTemp == 6
AirTempSet == {RNorm(n, 2) : n \in (-2 * MaxAirTemp) .. (2 * MaxAirTemp)} \cup {I(-10)}
SnowSet == {I(-1), Zero, <<1, 10>>, One, I(5), <<20, 3>>, <<67, 10>>, I(10)}
JunkSet == {Zero, I(7), NaN}

SnowCallStep ==
    /\ ~snowCall.called
    /\ \E junk \in JunkSet :
        snowCall' = [snowCall EXCEPT !.called = TRUE,
            !.tSoilAvg = surface_temperature_under_snow(snowCall.airTempAvg,
                                                        snowCall.snow, junk)]
    /\ UNCHANGED <<markovVars, sites, icpt, engineVars>>

IcptIdle == [fn |-> "none", pptIn |-> Zero, cov |-> Zero, scale |-> Zero,
             a |-> Zero, b |-> Zero, c |-> Zero, d |-> Zero,
             pptleft |-> Zero, wint |-> Zero]

InitSnow ==
    /\ OthersIdle
    /\ \E t \in AirTempSet, s \in SnowSet :
        snowCall = [called |-> FALSE, airTempAvg |-> t, snow |-> s, tSoilAvg |-> Zero]
    /\ icpt = IcptIdle
    /\ EngineIdle

NextSnow == SnowCallStep

SpecSnow == InitSnow /\ [][NextSnow]_vars

----------------------------------------------------------------------------
(* Soil profiles *)

\* the two kinds of layer the profiles are built from: a 10 cm and a 20 cm layer
\* with swcmin < swcwp < swcfc < swcsat [cm] and a bulk density [g/cm3]
LyrThin == [width |-> I(10), swcmin |-> <<1, 2>>, swcwp |-> One, swcfc |-> I(2),
            swcsat |-> I(4), bDensity |-> One]
LyrThick == [width |-> I(20), swcmin |-> One, swcwp |-> I(2), swcfc |-> I(4),
             swcsat |-> I(8), bDensity |-> I(2)]
LyrTypes == {LyrThin, LyrThick}

\* SW_Site for a profile of n layers of the given types and impermeabilities
MkSite(n, types, imperm) ==
    [nlyrs |-> n,
     width |-> [i \in Lyrs(n) |-> types[i].width],
     swcmin |-> [i \in Lyrs(n) |-> types[i].swcmin],
     swcwp |-> [i \in Lyrs(n) |-> types[i].swcwp],
     swcfc |-> [i \in Lyrs(n) |-> types[i].swcfc],
     swcsat |-> [i \in Lyrs(n) |-> types[i].swcsat],
     bDensity |-> [i \in Lyrs(n) |-> types[i].bDensity],
     impermeability |-> imperm]

----------------------------------------------------------------------------
(* set_frozen_unfrozen (SW_Flow_lib.c 1508-1532) *)

FREEZING_TEMP_C == I(-1)
MIN_VWC_TO_FREEZE == <<13, 100>>

\* set_frozen_unfrozen with LT in place of LE: a layer at exactly -1 C is not frozen
set_frozen_unfrozen_strict(nlyrs, sT, sw, swc_sat, width, frozen) ==
    [i \in DOMAIN frozen |->
        IF i < nlyrs
        THEN IF LT(sT[i], FREEZING_TEMP_C)
                /\ GT(sw[i], RSub(swc_sat[i], RMul(width[i], MIN_VWC_TO_FREEZE)))
             THEN 1 ELSE 0
        ELSE frozen[i]]

\* the new value of stValues.lyrFrozen, given its old value frozen
set_frozen_unfrozen(nlyrs, sT, sw, swc_sat, width, frozen) ==
    [i \in DOMAIN frozen |->
        IF i < nlyrs
        THEN IF LE(sT[i], FREEZING_TEMP_C)
                /\ GT(sw[i], RSub(swc_sat[i], RMul(width[i], MIN_VWC_TO_FREEZE)))
             THEN 1 ELSE 0
        ELSE frozen[i]]

\* a direct call of set_frozen_unfrozen on the drawn arguments
SetFrozenCall ==
    /\ pc = "frozen_args"
    /\ lyrFrozen' = set_frozen_unfrozen(site.nlyrs, sTemp, swc, site.swcsat,
                                        site.width, lyrFrozen)
    /\ pc' = "frozen_done"
    /\ UNCHANGED <<markovVars, sites, icpt, snowCall, site, swc, sTemp, tempVars, day, wth, flow>>

MaxFrozenLyrs == 2

\* layer temperatures around the freezing point
FrozenTempSet == {I(-2), I(-1), <<-1, 2>>}

\* water contents of a layer around swc_sat - 0.13 * width
FrozenSwcSet(t) ==
    {t.swcfc,
     RSub(t.swcsat, RMul(t.width, MIN_VWC_TO_FREEZE)),
     t.swcsat}

InitFrozen ==
    /\ OthersIdle
    /\ icpt = IcptIdle
    /\ snowCall = SnowIdle
    /\ pc = "frozen_args"
    /\ TempIdle
    /\ flow = FlowIdle
    /\ \E n \in 1 .. MaxFrozenLyrs :
        \E types \in [Lyrs(n) -> LyrTypes] :
            /\ site = MkSite(n, types, [i \in Lyrs(n) |-> Zero])
            /\ swc \in {f \in [Lyrs(n) -> UNION {FrozenSwcSet(t) : t \in LyrTypes}] :
                           \A i \in Lyrs(n) : f[i] \in FrozenSwcSet(types[i])}
            /\ sTemp \in [Lyrs(n) -> FrozenTempSet]
            /\ lyrFrozen \in [Lyrs(n) -> {0, 1}]

NextFrozen == SetFrozenCall

SpecFrozen == InitFrozen /\ [][NextFrozen]_vars

----------------------------------------------------------------------------
(* Soil temperature: the mappings between soil layers and the temperature grid
   (SW_Flow_lib.c 1217-1330) *)

\* generic.h: the line through (x1, y1) and (x2, y2), evaluated at deltaX
interpolation(x1, x2, y1, y2, deltaX) ==
    RAdd(y1, RMul(RDiv(RSub(y2, y1), RSub(x2, x1)), RSub(deltaX, x1)))

\* an array of n elements together with the cell behind its last element, which
\* the loops that run to nlyrs inclusive read
Ext(arr, n, behind) == [j \in 0 .. n |-> IF j < n THEN arr[j] ELSE behind]

\* the while loop of lyrSoil_to_lyrTemp for row i; s = [j, acc, sum, res]
RECURSIVE lyrSoil_to_lyrTemp_while(_, _, _)
lyrSoil_to_lyrTemp_while(e, i, s) ==
    IF ~(LT(s.acc, e.width_Temp) /\ s.j < e.nlyrSoil + 1) THEN s
    ELSE LET c == e.cor[i][s.j] IN
         IF GE(c, Zero)
         THEN LET ratio == RDiv(c, e.width_Soil[s.j])
                  acc == RAdd(s.acc, c)
              IN lyrSoil_to_lyrTemp_while(e, i,
                    [j |-> IF LT(acc, e.width_Temp) THEN s.j + 1 ELSE s.j,
                     acc |-> acc,
                     sum |-> RAdd(s.sum, ratio),
                     res |-> RAdd(s.res, RMul(e.var[s.j], ratio))])
         ELSE IF LT(c, Zero)
         THEN LET ratio == RDiv(RNeg(c), e.width_Soil[s.j - 1])
              IN lyrSoil_to_lyrTemp_while(e, i,
                    [j |-> s.j,
                     acc |-> RAdd(s.acc, RNeg(c)),
                     sum |-> RAdd(s.sum, ratio),
                     res |-> RAdd(s.res, RMul(e.var[s.j - 1], ratio))])
         ELSE s     \* cor is NaN: the C loop does not terminate; no grid has a NaN

\* the for loop of lyrSoil_to_lyrTemp from row i on; j carries over from row to row
RECURSIVE lyrSoil_to_lyrTemp_for(_, _, _, _)
lyrSoil_to_lyrTemp_for(e, i, j, res) ==
    IF i > e.nlyrTemp THEN res
    ELSE LET Row(s) == lyrSoil_to_lyrTemp_for(e, i + 1, s.j,
                           [res EXCEPT ![i] = RDiv(s.res, s.sum)])
         IN Row(lyrSoil_to_lyrTemp_while(e, i,
                    [j |-> j, acc |-> Zero, sum |-> Zero, res |-> Zero]))

\* res after the call: the width-weighted means of var over the soil layers of
\* every grid row 0 .. nlyrTemp; width_Soil and var carry the cell behind their end
lyrSoil_to_lyrTemp(cor, nlyrSoil, width_Soil, var, nlyrTemp, width_Temp, res) ==
    lyrSoil_to_lyrTemp_for(
        [cor |-> cor, nlyrSoil |-> nlyrSoil, width_Soil |-> width_Soil, var |-> var,
         nlyrTemp |-> nlyrTemp, width_Temp |-> width_Temp], 0, 0, res)

RECURSIVE AdvanceJ1(_, _, _, _)
AdvanceJ1(depth_Soil2, x, nlyrSoil, j1) ==
    IF (j1 + 1) < nlyrSoil /\ LT(depth_Soil2[j1 + 1], x)
    THEN AdvanceJ1(depth_Soil2, x, nlyrSoil, j1 + 1) ELSE j1

RECURSIVE AdvanceJ2(_, _, _, _)
AdvanceJ2(depth_Soil2, x, nlyrSoil, j2) ==
    IF (j2 + 1) < nlyrSoil + 1 /\ LE(depth_Soil2[j2 + 1], x)
    THEN AdvanceJ2(depth_Soil2, x, nlyrSoil, j2 + 1) ELSE j2

RECURSIVE lyrSoil_to_lyrTemp_temperature_for(_, _, _, _)
lyrSoil_to_lyrTemp_temperature_for(e, i, j1, sTempR) ==
    IF i >= e.nlyrTemp THEN sTempR
    ELSE LET Row(k1, k2) ==
                 lyrSoil_to_lyrTemp_temperature_for(e, i + 1, k1,
                    [sTempR EXCEPT ![i + 1] =
                        interpolation(e.depth_Soil2[k1], e.depth_Soil2[k2],
                                      e.sTemp2[k1], e.sTemp2[k2], e.depth_Temp[i])])
             Bracket(k1) ==
                 Row(k1, AdvanceJ2(e.depth_Soil2, e.depth_Temp[i], e.nlyrSoil, k1 + 1))
         IN Bracket(AdvanceJ1(e.depth_Soil2, e.depth_Temp[i], e.nlyrSoil, j1))

\* sTempR after the call: the layer temperatures interpolated at the grid depths
\* (entries 1 .. nlyrTemp) and endTemp below them (entry nlyrTemp + 1)
lyrSoil_to_lyrTemp_temperature(nlyrSoil, depth_Soil, sT, endTemp, nlyrTemp, depth_Temp, maxTempDepth, sTempR) ==
    LET filled == lyrSoil_to_lyrTemp_temperature_for(
                    [nlyrSoil |-> nlyrSoil, nlyrTemp |-> nlyrTemp, depth_Temp |-> depth_Temp,
                     depth_Soil2 |-> Ext(depth_Soil, nlyrSoil, maxTempDepth),
                     sTemp2 |-> Ext(sT, nlyrSoil, endTemp)], 0, 0, sTempR)
    IN [filled EXCEPT ![nlyrTemp + 1] = endTemp]

\* the while loop of lyrTemp_to_lyrSoil_temperature for soil layer j;
\* s = [i, acc, n, sum]
RECURSIVE lyrTemp_to_lyrSoil_while(_, _, _)
lyrTemp_to_lyrSoil_while(e, j, s) ==
    IF ~(LT(s.acc, e.width_Soil[j]) /\ s.i <= e.nlyrTemp + 1) THEN s
    ELSE LET i1 == IF EQ(e.cor[s.i][j], Zero) THEN s.i + 1 ELSE s.i
             c == e.cor[i1][j]
         IN IF GT(c, Zero)
            THEN LET use == ~(i1 = 0 /\ LT(RAdd(s.acc, c), e.width_Soil[j]))
                     acc == RAdd(s.acc, c)
                     t == interpolation(IF i1 > 0 THEN e.depth_Temp[i1 - 1] ELSE Zero,
                                        e.depth_Temp[i1], e.sTempR[i1], e.sTempR[i1 + 1],
                                        e.depth_Soil[j])
                 IN lyrTemp_to_lyrSoil_while(e, j,
                        [i |-> IF LT(acc, e.width_Soil[j]) THEN i1 + 1 ELSE i1,
                         acc |-> acc,
                         n |-> IF use THEN s.n + 1 ELSE s.n,
                         sum |-> IF use THEN RAdd(s.sum, t) ELSE s.sum])
            ELSE IF LT(c, Zero) THEN [s EXCEPT !.i = i1]
            ELSE IF i1 > s.i THEN lyrTemp_to_lyrSoil_while(e, j, [s EXCEPT !.i = i1])
            ELSE s  \* cor is NaN: the C loop does not terminate; no grid has a NaN

RECURSIVE lyrTemp_to_lyrSoil_for(_, _, _, _)
lyrTemp_to_lyrSoil_for(e, j, i, sT) ==
    IF j >= e.nlyrSoil THEN sT
    ELSE LET Layer(s) == lyrTemp_to_lyrSoil_for(e, j + 1, s.i,
                   [sT EXCEPT ![j] = IF s.n > 0 THEN RDiv(s.sum, I(s.n)) ELSE s.sum])
         IN Layer(lyrTemp_to_lyrSoil_while(e, j,
                      [i |-> i, acc |-> Zero, n |-> 0, sum |-> Zero]))

\* sTemp after the call: for every soil layer the mean of the grid temperatures
\* interpolated at the layer's depth.  The C loop also runs for j = nlyrSoil and
\* stores into sTemp[nlyrSoil]; that store is outside the nlyrSoil layers that
\* sTemp holds here, and nothing of the iteration is read afterwards.
lyrTemp_to_lyrSoil_temperature(cor, nlyrTemp, depth_Temp, sTempR, nlyrSoil, depth_Soil, width_Soil, sT) ==
    lyrTemp_to_lyrSoil_for(
        [cor |-> cor, nlyrTemp |-> nlyrTemp, depth_Temp |-> depth_Temp,
         sTempR |-> sTempR, nlyrSoil |-> nlyrSoil, depth_Soil |-> depth_Soil,
         width_Soil |-> width_Soil], 0, 0, sT)

----------------------------------------------------------------------------
(* soil_temperature_init (SW_Flow_lib.c 1358-1506) *)

\* depths[j]: the running sum of the layer widths
RECURSIVE CumWidth(_, _)
CumWidth(width, j) == IF j = 0 THEN width[0] ELSE RAdd(CumWidth(width, j - 1), width[j])

\* a while loop that gives the rest of a layer a whole grid row
RECURSIVE tlyrs_by_slyrs_while_full(_, _, _)
tlyrs_by_slyrs_while_full(e, i, s) ==
    IF ~(s.x2 < e.nlyrs /\ RLess(s.acc, e.deltaX)) THEN s
    ELSE LET prev == GT(s.d1, Zero)
             j == IF prev THEN s.x1 ELSE s.x2
             within == IF prev THEN GT(s.d1, e.deltaX)
                       ELSE LT(e.depthsR[i], e.depths[s.x2])
             d2 == IF prev THEN (IF within THEN e.deltaX ELSE e.deltaX)
                   ELSE (IF within THEN fmax(RSub(e.deltaX, s.acc), Zero)
                         ELSE e.width[s.x2])
             d1 == IF ~within THEN Zero
                   ELSE IF prev THEN RSub(s.d1, e.deltaX)
                   ELSE RSub(e.width[s.x2], d2)
         IN tlyrs_by_slyrs_while_full(e, i,
                [x1 |-> s.x1,
                 x2 |-> IF within THEN s.x2 ELSE s.x2 + 1,
                 d1 |-> d1,
                 acc |-> RAdd(s.acc, d2),
                 cor |-> [s.cor EXCEPT ![i][j] = d2]])

\* the while loop that fills row i of tlyrs_by_slyrs; s = [x1, x2, d1, acc, cor]
RECURSIVE tlyrs_by_slyrs_while(_, _, _)
tlyrs_by_slyrs_while(e, i, s) ==
    IF ~(s.x2 < e.nlyrs /\ RLess(s.acc, e.deltaX)) THEN s
    ELSE LET prev == GT(s.d1, Zero)
             j == IF prev THEN s.x1 ELSE s.x2
             within == IF prev THEN GT(s.d1, e.deltaX)
                       ELSE LT(e.depthsR[i], e.depths[s.x2])
             d2 == IF prev THEN (IF within THEN e.deltaX ELSE s.d1)
                   ELSE (IF within THEN fmax(RSub(e.deltaX, s.acc), Zero)
                         ELSE e.width[s.x2])
             d1 == IF ~within THEN Zero
                   ELSE IF prev THEN RSub(s.d1, e.deltaX)
                   ELSE RSub(e.width[s.x2], d2)
         IN tlyrs_by_slyrs_while(e, i,
                [x1 |-> s.x1,
                 x2 |-> IF within THEN s.x2 ELSE s.x2 + 1,
                 d1 |-> d1,
                 acc |-> RAdd(s.acc, d2),
                 cor |-> [s.cor EXCEPT ![i][j] = d2]])

\* the for loop over the grid rows from row i on; x1, x2 and d1 carry over
RECURSIVE tlyrs_by_slyrs_for(_, _, _)
tlyrs_by_slyrs_for(e, i, s) ==
    IF i > e.nRgr THEN s.cor
    ELSE LET Row(w) ==
                 tlyrs_by_slyrs_for(e, i + 1,
                    [w EXCEPT !.x1 = w.x2,
                              !.cor = IF w.x2 >= e.nlyrs
                                      THEN [@ EXCEPT ![i][w.x2] =
                                               RNeg(RSub(e.deltaX, w.acc))]
                                      ELSE @])
         IN Row(tlyrs_by_slyrs_while(e, i, [s EXCEPT !.acc = Zero]))

\* "init st" without its assignments: the arrays keep what they held
init_st_keep(st, nlyrs, nRgr) == st

\* "init st" (1377-1385): rows 0 .. nRgr of the grid arrays are set to 0, columns
\* 0 .. nlyrs of the correspondence matrix
init_st(st, nlyrs, nRgr) ==
    [st EXCEPT
        !.fcR = [i \in RgrIdx |-> IF i <= nRgr THEN Zero ELSE @[i]],
        !.wpR = [i \in RgrIdx |-> IF i <= nRgr THEN Zero ELSE @[i]],
        !.bDensityR = [i \in RgrIdx |-> IF i <= nRgr THEN Zero ELSE @[i]],
        !.oldsTempR = [i \in RgrIdx |-> IF i <= nRgr THEN Zero ELSE @[i]],
        !.tlyrs_by_slyrs = [i \in RgrIdx |-> [j \in LyrIdx |->
              IF i <= nRgr /\ j <= nlyrs THEN Zero ELSE @[i][j]]]]

\* the depths of the soil layers and of the grid rows (1387-1397); widthX is width
\* with the cell behind its last element, which the loop to nlyrs inclusive reads
st_depths(st, widthX, nlyrs, deltaX, nRgr) ==
    [st EXCEPT
        !.depths = [j \in LyrIdx |-> IF j <= nlyrs THEN CumWidth(widthX, j) ELSE @[j]],
        !.depthsR = [i \in RgrIdx |-> IF i <= nRgr THEN RMul(I(i + 1), deltaX) ELSE @[i]]]

\* the projections of bulk density, initial temperature, field capacity and wilting
\* point onto the grid through the correspondence matrix cor (1469-1478)
st_project(st, cor, bDensity, width, oldsTemp, meanAirTemp, nlyrs, fc, wp, deltaX, theMaxDepth, nRgr, behind) ==
    LET widthX == Ext(width, nlyrs, behind.width)
        fc_vwc == [i \in Lyrs(nlyrs) |-> RDiv(fc[i], width[i])]
        wp_vwc == [i \in Lyrs(nlyrs) |-> RDiv(wp[i], width[i])]
    IN [st EXCEPT
          !.tlyrs_by_slyrs = cor,
          !.bDensityR = lyrSoil_to_lyrTemp(cor, nlyrs, widthX,
                            Ext(bDensity, nlyrs, behind.val), nRgr, deltaX, @),
          !.oldsTempR = lyrSoil_to_lyrTemp_temperature(nlyrs, st.depths, oldsTemp,
                            meanAirTemp, nRgr, st.depthsR, theMaxDepth, @),
          !.fcR = lyrSoil_to_lyrTemp(cor, nlyrs, widthX,
                            Ext(fc_vwc, nlyrs, behind.val), nRgr, deltaX, @),
          !.wpR = lyrSoil_to_lyrTemp(cor, nlyrs, widthX,
                            Ext(wp_vwc, nlyrs, behind.val), nRgr, deltaX, @)]

\* the depth check and what follows it (1400-1478), on stValues after the reset and
\* the depths
st_check_and_build(st, err, bDensity, width, oldsTemp, meanAirTemp, nlyrs, fc, wp, deltaX, theMaxDepth, nRgr, behind) ==
    IF LT(theMaxDepth, st.depths[nlyrs - 1])
    THEN [st |-> st, soil_temp_error |-> IF err = 0 THEN 1 ELSE err]
    ELSE [st |-> st_project(st,
                    tlyrs_by_slyrs_for(
                        [nlyrs |-> nlyrs, nRgr |-> nRgr, deltaX |-> deltaX,
                         width |-> width, depths |-> st.depths, depthsR |-> st.depthsR],
                        0,
                        [x1 |-> 0, x2 |-> 0, d1 |-> Zero, acc |-> Zero,
                         cor |-> st.tlyrs_by_slyrs]),
                    bDensity, width, oldsTemp, meanAirTemp, nlyrs, fc, wp,
                    deltaX, theMaxDepth, nRgr, behind),
          soil_temp_error |-> err]

\* stValues and soil_temp_error after the call (soil_temp_init becomes 1 in the
\* caller's action).  behind.width and behind.val are the cells behind the last
\* element of width and of the other per-layer arrays, which the loops to nlyrs
\* inclusive read.
soil_temperature_init(st, err, bDensity, width, oldsTemp, meanAirTemp, nlyrs, fc, wp, deltaX, theMaxDepth, nRgr, behind) ==
    st_check_and_build(
        st_depths(init_st(st, nlyrs, nRgr), Ext(width, nlyrs, behind.width),
                  nlyrs, deltaX, nRgr),
        err, bDensity, width, oldsTemp, meanAirTemp, nlyrs, fc, wp,
        deltaX, theMaxDepth, nRgr, behind)

----------------------------------------------------------------------------
(* soil_temperature (SW_Flow_lib.c 1535-1887) *)

\* SW_Defines.h
SEC_PER_DAY == I(86400)

\* SurfaceT1 without the snow case
SurfaceT1_snowfree(w, p) ==
    IF LE(w.biomass, p.bmLimiter)
    THEN RAdd(w.airTemp,
              RMul(RMul(RMul(p.t1Param1, w.pet), RSub(One, RDiv(w.aet, w.pet))),
                   RSub(One, RDiv(w.biomass, p.bmLimiter))))
    ELSE RAdd(w.airTemp,
              RDiv(RMul(p.t1Param2, RSub(w.biomass, p.bmLimiter)), p.t1Param3))

\* the average temperature at the top of the soil: under snow, under sparse
\* vegetation, under dense vegetation (lines 1722-1743)
SurfaceT1(w, p) ==
    IF GT(w.snowdepth, Zero)
    THEN surface_temperature_under_snow(w.airTemp, w.snow, w.junk)
    ELSE IF LE(w.biomass, p.bmLimiter)
    THEN RAdd(w.airTemp,
              RMul(RMul(RMul(p.t1Param1, w.pet), RSub(One, RDiv(w.aet, w.pet))),
                   RSub(One, RDiv(w.biomass, p.bmLimiter))))
    ELSE RAdd(w.airTemp,
              RDiv(RMul(p.t1Param2, RSub(w.biomass, p.bmLimiter)), p.t1Param3))

\* a regression that does not compare parts with 1.0
RECURSIVE HeatStep_silent(_, _, _)
HeatStep_silent(e, i, s) ==
    IF i > e.nRgr THEN s
    ELSE LET k == i - 1
             pe == RDiv(RSub(e.vwcR[k], e.wpR[k]), RSub(e.fcR[k], e.wpR[k]))
             cs == RAdd(e.csParam1, RMul(pe, e.csParam2))
             sh == RAdd(e.vwcR[k], RMul(e.shParam, RSub(One, e.vwcR[k])))
             parts == RDiv(RMul(e.part1, cs), RMul(sh, e.bDensityR[k]))
             part2 == RAdd(RSub(s.sTempR[i - 1], RMul(I(2), e.oldsTempR[i])),
                           e.oldsTempR[i + 1])
         IN HeatStep_silent(e, i + 1,
                [sTempR |-> [s.sTempR EXCEPT
                                ![i] = RAdd(e.oldsTempR[i], RMul(parts, part2))],
                 soil_temp_error |-> s.soil_temp_error])

\* a regression that takes yesterday's value of the node above
RECURSIVE HeatStep_yesterday(_, _, _)
HeatStep_yesterday(e, i, s) ==
    IF i > e.nRgr THEN s
    ELSE LET k == i - 1
             pe == RDiv(RSub(e.vwcR[k], e.wpR[k]), RSub(e.fcR[k], e.wpR[k]))
             cs == RAdd(e.csParam1, RMul(pe, e.csParam2))
             sh == RAdd(e.vwcR[k], RMul(e.shParam, RSub(One, e.vwcR[k])))
             parts == RDiv(RMul(e.part1, cs), RMul(sh, e.bDensityR[k]))
             part2 == RAdd(RSub(e.oldsTempR[i - 1], RMul(I(2), e.oldsTempR[i])),
                           e.oldsTempR[i + 1])
         IN HeatStep_yesterday(e, i + 1,
                [sTempR |-> [s.sTempR EXCEPT
                                ![i] = RAdd(e.oldsTempR[i], RMul(parts, part2))],
                 soil_temp_error |-> IF GT(parts, One) THEN 1 ELSE s.soil_temp_error])

\* the regression over the grid rows i .. nRgr (lines 1768-1803);
\* s = [sTempR, soil_temp_error]
RECURSIVE HeatStep(_, _, _)
HeatStep(e, i, s) ==
    IF i > e.nRgr THEN s
    ELSE LET k == i - 1
             pe == RDiv(RSub(e.vwcR[k], e.wpR[k]), RSub(e.fcR[k], e.wpR[k]))
             cs == RAdd(e.csParam1, RMul(pe, e.csParam2))
             sh == RAdd(e.vwcR[k], RMul(e.shParam, RSub(One, e.vwcR[k])))
             parts == RDiv(RMul(e.part1, cs), RMul(sh, e.bDensityR[k]))
             part2 == RAdd(RSub(s.sTempR[i - 1], RMul(I(2), e.oldsTempR[i])),
                           e.oldsTempR[i + 1])
         IN HeatStep(e, i + 1,
                [sTempR |-> [s.sTempR EXCEPT
                                ![i] = RAdd(e.oldsTempR[i], RMul(parts, part2))],
                 soil_temp_error |-> IF GT(parts, One) THEN 1 ELSE s.soil_temp_error])

\* adjust_Tsoil_by_freezing_and_thawing (1535-1610): the adjustment itself is
\* commented out in the code; the call initialises the fusion pools once and
\* returns 0
adjust_Tsoil_by_freezing_and_thawing(st, fpinit, nlyrs) ==
    [st |-> IF fpinit = 0
            THEN [st EXCEPT !.oldsFusionPool_actual =
                     [j \in LyrIdx |-> IF j < nlyrs THEN Zero ELSE @[j]]]
            ELSE st,
     fusion_pool_init |-> 1,
     sFadjusted_sTemp |-> 0]

\* a regression whose first-call block runs on every call: the grid is built
\* anew from the layer temperatures each day
soil_temperature_first_again(g, w, sw, oldsTemp, p) ==
    soil_temperature_init(g.stValues, g.soil_temp_error, p.bDensity, p.width,
        oldsTemp, p.meanAirTemp, p.nlyrs, p.swcfc, p.swcwp, p.stDeltaX,
        p.stMaxDepth, p.stNRGR, p.behind) @@
    [surfaceTemp |-> [g.surfaceTemp EXCEPT ![Today] = w.airTemp],
     lyrFrozen |-> set_frozen_unfrozen(p.nlyrs, oldsTemp, sw, p.swcsat, p.width,
                                       g.lyrFrozen)]

\* the first-call block (1705-1717): surfaceTemp[Today] = airTemp, the frozen
\* flags from oldsTemp, soil_temperature_init; on later calls nothing
soil_temperature_first(g, w, sw, oldsTemp, p) ==
    IF g.soil_temp_init # 0
    THEN [st |-> g.stValues, soil_temp_error |-> g.soil_temp_error,
          surfaceTemp |-> g.surfaceTemp, lyrFrozen |-> g.lyrFrozen]
    ELSE soil_temperature_init(g.stValues, g.soil_temp_error, p.bDensity, p.width,
             oldsTemp, p.meanAirTemp, p.nlyrs, p.swcfc, p.swcwp, p.stDeltaX,
             p.stMaxDepth, p.stNRGR, p.behind) @@
         [surfaceTemp |-> [g.surfaceTemp EXCEPT ![Today] = w.airTemp],
          lyrFrozen |-> set_frozen_unfrozen(p.nlyrs, oldsTemp, sw, p.swcsat, p.width,
                                            g.lyrFrozen)]

\* the regression over the grid (1753-1805) on the state f the first-call block
\* left: [sTempR, soil_temp_error], sTempR[0] = T1 and sTempR[nRgr + 1] = meanAirTemp
soil_temperature_grid(f, T1, w, sw, p) ==
    LET vwc == [i \in Lyrs(p.nlyrs) |-> RDiv(sw[i], p.width[i])]
        Regress(vwcR) ==
            HeatStep([nRgr |-> p.stNRGR, vwcR |-> vwcR, wpR |-> f.st.wpR,
                      fcR |-> f.st.fcR, bDensityR |-> f.st.bDensityR,
                      oldsTempR |-> f.st.oldsTempR,
                      csParam1 |-> p.csParam1, csParam2 |-> p.csParam2,
                      shParam |-> p.shParam,
                      part1 |-> RDiv(SEC_PER_DAY, RMul(p.stDeltaX, p.stDeltaX))],
                     1,
                     [sTempR |-> [i \in 0 .. (MaxRgr + 3) |-> IF i = 0 THEN T1 ELSE w.junk],
                      soil_temp_error |-> f.soil_temp_error])
        Bottom(h) == [h EXCEPT !.sTempR[p.stNRGR + 1] = p.meanAirTemp]
    IN Bottom(Regress(lyrSoil_to_lyrTemp(f.st.tlyrs_by_slyrs, p.nlyrs,
                          Ext(p.width, p.nlyrs, p.behind.width),
                          Ext(vwc, p.nlyrs, p.behind.val),
                          p.stNRGR, p.stDeltaX, [i \in RgrIdx |-> w.junk])))

\* a soil_temperature that ends without the call of set_frozen_unfrozen at line
\* 1846: the flags stay as the start of the day left them
soil_temperature_store_stale(g, f, h, T1, sT, sw, p) ==
    [sTemp |-> sT,
     T1 |-> T1,
     surfaceTemp |-> [d \in {Yesterday, Today} |->
                         IF d = Yesterday THEN f.surfaceTemp[Today] ELSE T1],
     lyrFrozen |-> f.lyrFrozen,
     stValues |-> [adjust_Tsoil_by_freezing_and_thawing(f.st, g.fusion_pool_init,
                                                        p.nlyrs).st
                      EXCEPT !.oldsTempR = [i \in RgrIdx |->
                                IF i <= p.stNRGR + 1 THEN h.sTempR[i] ELSE @[i]]],
     soil_temp_error |-> h.soil_temp_error,
     soil_temp_init |-> 1,
     fusion_pool_init |-> 1]

\* a regression whose copy loop at the end of the call runs over the interior
\* nodes 1 .. nRgr only: the surface node and the bottom node of oldsTempR keep
\* the values of the day before
soil_temperature_store_interior(g, f, h, T1, sT, sw, p) ==
    [sTemp |-> sT,
     T1 |-> T1,
     surfaceTemp |-> [d \in {Yesterday, Today} |->
                         IF d = Yesterday THEN f.surfaceTemp[Today] ELSE T1],
     lyrFrozen |-> set_frozen_unfrozen(p.nlyrs, sT, sw, p.swcsat, p.width, f.lyrFrozen),
     stValues |-> [adjust_Tsoil_by_freezing_and_thawing(f.st, g.fusion_pool_init,
                                                        p.nlyrs).st
                      EXCEPT !.oldsTempR = [i \in RgrIdx |->
                                IF 1 <= i /\ i <= p.stNRGR THEN h.sTempR[i] ELSE @[i]]],
     soil_temp_error |-> h.soil_temp_error,
     soil_temp_init |-> 1,
     fusion_pool_init |-> 1]

\* the end of the call (1807-1876): surfaceTemp, the layer temperatures sT from the
\* grid, the fusion pools, the frozen flags and oldsTempR
soil_temperature_store(g, f, h, T1, sT, sw, p) ==
    [sTemp |-> sT,
     T1 |-> T1,
     surfaceTemp |-> [d \in {Yesterday, Today} |->
                         IF d = Yesterday THEN f.surfaceTemp[Today] ELSE T1],
     lyrFrozen |-> set_frozen_unfrozen(p.nlyrs, sT, sw, p.swcsat, p.width, f.lyrFrozen),
     stValues |-> [adjust_Tsoil_by_freezing_and_thawing(f.st, g.fusion_pool_init,
                                                        p.nlyrs).st
                      EXCEPT !.oldsTempR = [i \in RgrIdx |->
                                IF i <= p.stNRGR + 1 THEN h.sTempR[i] ELSE @[i]]],
     soil_temp_error |-> h.soil_temp_error,
     soil_temp_init |-> 1,
     fusion_pool_init |-> 1]

\* The state after one call of soil_temperature.  g holds the globals
\* (stValues, lyrFrozen, the three latches, surfaceTemp), w the day's inputs
\* (airTemp, pet, aet, biomass, snowdepth, snow and junk, the content of the
\* uninitialised locals), sw the water content, oldsTemp yesterday's layer
\* temperatures, p the site.  The locals vwcR[nRgr] and sTempR[nRgr + 1] are
\* declared one element shorter than the index ranges 0 .. nRgr and
\* 0 .. nRgr + 1 the function uses; they are modelled with the ranges it uses.
\* adjust_Tsoil_by_freezing_and_thawing returns 0, so the grid temperatures are
\* never recomputed from the layers.
soil_temperature(g, w, sw, oldsTemp, p) ==
    LET Store(f, h, T1) ==
            soil_temperature_store(g, f, h, T1,
                lyrTemp_to_lyrSoil_temperature(f.st.tlyrs_by_slyrs, p.stNRGR,
                    f.st.depthsR, h.sTempR, p.nlyrs, f.st.depths, p.width, oldsTemp),
                sw, p)
        Grid(f, T1) == Store(f, soil_temperature_grid(f, T1, w, sw, p), T1)
    IN Grid(soil_temperature_first(g, w, sw, oldsTemp, p), SurfaceT1(w, p))

----------------------------------------------------------------------------
(* Sites and daily inputs of the soil-temperature specifications *)

\* the soil profiles of n layers: 10 cm layers, 10 cm layers over a 20 cm layer,
\* 20 cm layers
Profiles(n) ==
    {[i \in Lyrs(n) |-> LyrThin],
     [i \in Lyrs(n) |-> IF i = n - 1 THEN LyrThick ELSE LyrThin],
     [i \in Lyrs(n) |-> LyrThick]}

\* the grid spacing [cm] and the grid depths: deltaX * (nRgr + 1), nRgr = 1 .. MaxRgr
DeltaX == I(15)
MaxDepthSet == {RMul(DeltaX, I(r + 1)) : r \in 1 .. MaxRgr}

\* nRgr as the loader derives it from theMaxDepth and deltaX
NRgrOf(theMaxDepth) == CHOOSE r \in 1 .. MaxRgr : RMul(DeltaX, I(r + 1)) = theMaxDepth

\* what lies behind the last element of the per-layer arrays: zeros (the rest of a
\* zero-initialised buffer) or foreign values
BehindSet == {[width |-> Zero, val |-> Zero], [width |-> I(10), val |-> One]}

\* SW_Site with the soil-temperature constants of the site
MkTempSite(types, theMaxDepth, behind) ==
    MkSite(Cardinality(DOMAIN types), types, [i \in DOMAIN types |-> Zero]) @@
    [stDeltaX |-> DeltaX, stMaxDepth |-> theMaxDepth, stNRGR |-> NRgrOf(theMaxDepth),
     meanAirTemp |-> I(5), bmLimiter |-> I(300),
     t1Param1 |-> I(15), t1Param2 |-> I(-4), t1Param3 |-> I(600),
     csParam1 |-> <<1, 1024>>, csParam2 |-> <<1, 3072>>, shParam |-> <<1, 6>>,
     behind |-> behind]

\* the start of a run: a wet and cold profile or a profile at field capacity
StartSet(types) ==
    {[swc |-> [i \in DOMAIN types |-> types[i].swcsat],
      sTemp |-> [i \in DOMAIN types |-> I(-2)]],
     [swc |-> [i \in DOMAIN types |-> types[i].swcfc],
      sTemp |-> [i \in DOMAIN types |-> I(3)]]}

\* the total depth of the soil profile
ProfileDepth == CumWidth(site.width, site.nlyrs - 1)

----------------------------------------------------------------------------
(* Direct calls of soil_temperature_init, as the unit tests make them *)

MaxInitCalls == 2

SoilTemperatureInitCall ==
    /\ pc \in {"init_args", "init_ok", "init_error"}
    /\ day < MaxInitCalls
    /\ \E theMaxDepth \in MaxDepthSet :
        LET nRgr == NRgrOf(theMaxDepth)
            r == soil_temperature_init(stValues, soil_temp_error, site.bDensity,
                     site.width, sTemp, site.meanAirTemp, site.nlyrs, site.swcfc,
                     site.swcwp, site.stDeltaX, theMaxDepth, nRgr, site.behind)
        IN /\ site' = [site EXCEPT !.stMaxDepth = theMaxDepth, !.stNRGR = nRgr]
           /\ stValues' = r.st
           /\ soil_temp_error' = r.soil_temp_error
           /\ soil_temp_init' = 1
           /\ pc' = IF LT(theMaxDepth, ProfileDepth) THEN "init_error" ELSE "init_ok"
    /\ day' = day + 1
    /\ UNCHANGED <<markovVars, sites, icpt, snowCall, swc, sTemp, lyrFrozen, fusion_pool_init,
                   surfaceTemp, wth, flow>>

InitInit ==
    /\ OthersIdle
    /\ icpt = IcptIdle
    /\ snowCall = SnowIdle
    /\ pc = "init_args"
    /\ TempIdle
    /\ flow = FlowIdle
    /\ \E n \in 1 .. MaxLyrs : \E types \in Profiles(n) :
        /\ \E behind \in BehindSet, d \in MaxDepthSet :
              site = MkTempSite(types, d, behind)
        /\ \E start \in StartSet(types) : swc = start.swc /\ sTemp = start.sTemp
        /\ lyrFrozen = [i \in Lyrs(n) |-> 0]

NextInit == SoilTemperatureInitCall

SpecInit == InitInit /\ [][NextInit]_vars

----------------------------------------------------------------------------
(* Daily calls of soil_temperature on a profile whose water content stays put *)

MaxDays == 2

\* days under snow (cold and mild air), snow-free days with a biomass below, at
\* and above bmLimiter, and a day of frost on bare ground
WeatherSet ==
    {[airTemp |-> I(-10), pet |-> <<2, 5>>, aet |-> <<1, 5>>, biomass |-> I(150),
      snowdepth |-> I(20), snow |-> <<10, 3>>],
     [airTemp |-> I(2), pet |-> <<2, 5>>, aet |-> <<1, 5>>, biomass |-> I(150),
      snowdepth |-> I(2), snow |-> <<1, 2>>],
     [airTemp |-> I(4), pet |-> <<2, 5>>, aet |-> <<1, 5>>, biomass |-> I(150),
      snowdepth |-> Zero, snow |-> Zero],
     [airTemp |-> I(4), pet |-> <<2, 5>>, aet |-> <<1, 5>>, biomass |-> I(300),
      snowdepth |-> Zero, snow |-> Zero],
     [airTemp |-> I(4), pet |-> <<2, 5>>, aet |-> <<1, 5>>, biomass |-> I(600),
      snowdepth |-> Zero, snow |-> Zero],
     [airTemp |-> I(-6), pet |-> <<2, 5>>, aet |-> <<2, 5>>, biomass |-> Zero,
      snowdepth |-> Zero, snow |-> Zero]}

\* the globals that soil_temperature reads and writes
TempGlobals ==
    [stValues |-> stValues, lyrFrozen |-> lyrFrozen,
     soil_temp_error |-> soil_temp_error, soil_temp_init |-> soil_temp_init,
     fusion_pool_init |-> fusion_pool_init, surfaceTemp |-> surfaceTemp]

\* one call of soil_temperature with the inputs w; the caller passes the layer
\* temperatures of the day before as oldsTemp and stores the new ones
SoilTemperatureCall(w, junk) ==
    \E r \in {soil_temperature(TempGlobals, w @@ [junk |-> junk], swc, sTemp, site)} :
       /\ sTemp' = r.sTemp
       /\ surfaceTemp' = r.surfaceTemp
       /\ lyrFrozen' = r.lyrFrozen
       /\ stValues' = r.stValues
       /\ soil_temp_error' = r.soil_temp_error
       /\ soil_temp_init' = r.soil_temp_init
       /\ fusion_pool_init' = r.fusion_pool_init
       /\ wth' = w

\* what the uninitialised local arrays of soil_temperature may hold
LocalJunkSet == {NaN, I(7)}

SoilTemperatureDay ==
    /\ pc \in {"temp_args", "temp_done"}
    /\ day < MaxDays
    /\ \E w \in WeatherSet, junk \in LocalJunkSet : SoilTemperatureCall(w, junk)
    /\ day' = day + 1
    /\ pc' = "temp_done"
    /\ UNCHANGED <<markovVars, sites, icpt, snowCall, site, swc, flow>>

InitTemp ==
    /\ OthersIdle
    /\ icpt = IcptIdle
    /\ snowCall = SnowIdle
    /\ pc = "temp_args"
    /\ TempIdle
    /\ flow = FlowIdle
    /\ \E n \in 1 .. MaxLyrs : \E types \in Profiles(n) :
        /\ \E behind \in BehindSet, d \in MaxDepthSet :
              site = MkTempSite(types, d, behind)
        /\ \E start \in StartSet(types) : swc = start.swc /\ sTemp = start.sTemp
        /\ lyrFrozen = [i \in Lyrs(n) |-> 0]

NextTemp == SoilTemperatureDay

SpecTemp == InitTemp /\ [][NextTemp]_vars

----------------------------------------------------------------------------
(* The soil-water steps (SW_Flow_lib.c 318-385 and 982-1205) *)

\* SW_SoilWater.c: the matric potential of layer n at the bulk water content
\* swcBulk, as the flow library uses it: in -bar, so positive, and the larger the
\* drier the layer.  Here 1 bar at saturation, rising by 4 bar for each 0.1 of
\* volumetric water content below it (13 bar at the wilting point of the layers
\* of these profiles).
SWCbulk2SWPmatric(fractionGravel, swcBulk, n) ==
    RAdd(One, RDiv(RMul(I(40), RSub(site.swcsat[n], swcBulk)), site.width[n]))

\* math.h exp for the arguments x <= 0 that infiltrate_water_low passes: the
\* tangent at 0, kept positive; 1 at 0, at most 1 and nondecreasing below 0
exp(x) == fmax(RAdd(One, x), <<1, 16>>)

\* generic.h powe(x, y) = exp(y * log(x)) for x >= 0 and a whole exponent y
RECURSIVE powe(_, _)
powe(x, y) == IF y = 0 THEN One ELSE RMul(x, powe(x, y - 1))

\* the sum of arr[i .. n - 1]
RECURSIVE RSum(_, _, _)
RSum(arr, i, n) == IF i >= n THEN Zero ELSE RAdd(arr[i], RSum(arr, i + 1, n))

\* the upward sweep of both percolation functions (372-384, 1107-1119): it starts
\* at j = nlyrs, the cell behind the last layer; s = [swc, drain, drainout,
\* standingWater] with swc and swcsat over 0 .. nlyrs.  infiltrate_water_high
\* zeroes standingWater and assigns the push of layer 0, infiltrate_water_low adds
\* it: both are the sum below
RECURSIVE push_upwards(_, _, _)
push_upwards(swcsat, j, s) ==
    IF j < 0 THEN s
    ELSE IF GT(s.swc[j], swcsat[j])
    THEN LET Pushed(push) ==
                 IF j > 0
                 THEN [s EXCEPT !.swc[j] = RSub(@, push),
                                !.drain[j - 1] = RSub(@, push),
                                !.swc[j - 1] = RAdd(@, push)]
                 ELSE [s EXCEPT !.swc[j] = RSub(@, push),
                                !.standingWater = RAdd(@, push)]
         IN push_upwards(swcsat, j - 1, Pushed(RSub(s.swc[j], swcsat[j])))
    ELSE push_upwards(swcsat, j - 1, s)

\* a regression of the percolation loop of infiltrate_water_high that conducts
\* through a frozen layer as through an unfrozen one
RECURSIVE infiltrate_water_high_for_unfrozen(_, _, _)
infiltrate_water_high_for_unfrozen(e, i, s) ==
    IF i >= e.nlyrs THEN s
    ELSE LET Percolate(d) ==
                 IF i < e.nlyrs - 1
                 THEN [s EXCEPT !.drain[i] = d,
                                !.swc[i + 1] = RAdd(@, d),
                                !.swc[i] = RSub(@, d)]
                 ELSE [s EXCEPT !.drain[i] = d,
                                !.drainout = d,
                                !.swc[i] = RSub(@, d)]
         IN infiltrate_water_high_for_unfrozen(e, i + 1,
                Percolate(fmax(Zero,
                    RMul(RSub(One, e.impermeability[i]),
                         RSub(s.swc[i], e.swcfc[i])))))

\* the percolation loop of infiltrate_water_high (347-370) from layer i on
RECURSIVE infiltrate_water_high_for(_, _, _)
infiltrate_water_high_for(e, i, s) ==
    IF i >= e.nlyrs THEN s
    ELSE LET ksat_rel == IF e.lyrFrozen[i] = 1 THEN <<1, 100>> ELSE One
             Percolate(d) ==
                 IF i < e.nlyrs - 1
                 THEN [s EXCEPT !.drain[i] = d,
                                !.swc[i + 1] = RAdd(@, d),
                                !.swc[i] = RSub(@, d)]
                 ELSE [s EXCEPT !.drain[i] = d,
                                !.drainout = d,
                                !.swc[i] = RSub(@, d)]
         IN infiltrate_water_high_for(e, i + 1,
                Percolate(fmax(Zero,
                    RMul(RMul(ksat_rel, RSub(One, e.impermeability[i])),
                         RSub(s.swc[i], e.swcfc[i])))))

\* infiltrate_water_high (318-385).  swc and swcsat are the arrays with the cell
\* behind their last element (0 .. nlyrs); the result is [swc, drain, drainout,
\* standingWater].  drainout is only written for the last layer.
infiltrate_water_high(swc_, drain, drainout, pptleft, nlyrs, swcfc, swcsat, impermeability, frozen) ==
    push_upwards(swcsat, nlyrs,
        infiltrate_water_high_for(
            [nlyrs |-> nlyrs, swcfc |-> swcfc, impermeability |-> impermeability,
             lyrFrozen |-> frozen],
            0,
            [swc |-> [swc_ EXCEPT ![0] = RAdd(@, pptleft)], drain |-> drain,
             drainout |-> drainout, standingWater |-> Zero]))

\* the removal loop of remove_from_soil (1025-1033) from layer i on;
\* s = [swc, qty, aet]
RECURSIVE remove_from_soil_for(_, _, _)
remove_from_soil_for(e, i, s) ==
    IF i >= e.nlyrs THEN s
    ELSE IF e.lyrFrozen[i] = 0
    THEN LET Take(q) ==
                 [swc |-> [s.swc EXCEPT ![i] = RSub(@, q)],
                  qty |-> [s.qty EXCEPT ![i] = q],
                  aet |-> RAdd(s.aet, q)]
         IN remove_from_soil_for(e, i + 1,
                Take(fmin(RMul(RDiv(e.swpfrac[i], e.sumswp), e.rate),
                          fmax(Zero, RSub(s.swc[i], e.swcmin[i])))))
    ELSE remove_from_soil_for(e, i + 1, s)

\* remove_from_soil (982-1035): the result is [swc, qty, aet]
remove_from_soil(swc_, qty, aet, nlyrs, coeff, rate, swcmin, frozen) ==
    LET Remove(swpfrac) ==
            IF ZRO(RSum(swpfrac, 0, nlyrs))
            THEN [swc |-> swc_, qty |-> qty, aet |-> aet]
            ELSE remove_from_soil_for(
                     [nlyrs |-> nlyrs, swpfrac |-> swpfrac,
                      sumswp |-> RSum(swpfrac, 0, nlyrs), rate |-> rate,
                      swcmin |-> swcmin, lyrFrozen |-> frozen],
                     0, [swc |-> swc_, qty |-> qty, aet |-> aet])
    IN Remove([i \in Lyrs(nlyrs) |->
                  RDiv(coeff[i], SWCbulk2SWPmatric(Zero, swc_[i], i))])

\* the percolation loop of infiltrate_water_low (1080-1105) from layer i on
RECURSIVE infiltrate_water_low_for(_, _, _)
infiltrate_water_low_for(e, i, s) ==
    IF i >= e.nlyrs THEN s
    ELSE LET kunsat_rel == IF e.lyrFrozen[i] = 1 THEN <<1, 100>> ELSE One
             swc_avail == fmax(Zero, RSub(s.swc[i], e.swcmin[i]))
             drainpot ==
                 IF GT(s.swc[i], e.swcfc[i]) THEN e.sdrainpar
                 ELSE RMul(e.sdrainpar,
                           exp(RDiv(RMul(RSub(s.swc[i], e.swcfc[i]), e.sdraindpth),
                                    e.width[i])))
             Percolate(d) ==
                 IF i < e.nlyrs - 1
                 THEN [s EXCEPT !.drain[i] = RAdd(@, d),
                                !.swc[i + 1] = RAdd(@, d),
                                !.swc[i] = RSub(@, d)]
                 ELSE [s EXCEPT !.drain[i] = RAdd(@, d),
                                !.drainout = RAdd(@, fmax(d, Zero)),
                                !.swc[i] = RSub(@, fmax(d, Zero))]
         IN infiltrate_water_low_for(e, i + 1,
                Percolate(IF LE(s.swc[i], e.swcmin[i]) THEN Zero
                          ELSE RMul(RMul(kunsat_rel, RSub(One, e.impermeability[i])),
                                    fmin(swc_avail, drainpot))))

\* infiltrate_water_low (1037-1121): swc and swcsat over 0 .. nlyrs as above; the
\* result is [swc, drain, drainout, standingWater]
infiltrate_water_low(swc_, drain, drainout, nlyrs, sdrainpar, sdraindpth, swcfc, width, swcmin, swcsat, impermeability, standingWater, frozen) ==
    push_upwards(swcsat, nlyrs,
        infiltrate_water_low_for(
            [nlyrs |-> nlyrs, sdrainpar |-> sdrainpar, sdraindpth |-> sdraindpth,
             swcfc |-> swcfc, width |-> width, swcmin |-> swcmin,
             impermeability |-> impermeability, lyrFrozen |-> frozen],
            0,
            [swc |-> swc_, drain |-> drain, drainout |-> drainout,
             standingWater |-> standingWater]))

\* a regression of the pair loop that exchanges water whenever the two layers
\* are not frozen, however dry they are
hydred_pair_dry(e, i, j) ==
    IF e.lyrFrozen[i] = 0 /\ e.lyrFrozen[j] = 0
    THEN LET Rx == IF GT(e.swc[i], e.swc[j]) THEN e.lyrRootCo[i] ELSE e.lyrRootCo[j]
         IN RMul(RMul(RMul(RDiv(RMul(e.maxCondroot, I(10)), I(24)),
                           RSub(e.swp[j], e.swp[i])),
                      fmax(e.relCondroot[i], e.relCondroot[j])),
                 RDiv(RMul(e.lyrRootCo[i], e.lyrRootCo[j]), RSub(One, Rx)))
    ELSE Zero

\* hydredmat[i][j] for 1 <= i < j as the pair loop of hydraulic_redistribution
\* computes it (1164-1177)
hydred_pair(e, i, j) ==
    IF (LT(e.swp[i], e.swpwp[i]) \/ LT(e.swp[j], e.swpwp[j]))
       /\ e.lyrFrozen[i] = 0 /\ e.lyrFrozen[j] = 0
    THEN LET Rx == IF GT(e.swc[i], e.swc[j]) THEN e.lyrRootCo[i] ELSE e.lyrRootCo[j]
         IN RMul(RMul(RMul(RDiv(RMul(e.maxCondroot, I(10)), I(24)),
                           RSub(e.swp[j], e.swp[i])),
                      fmax(e.relCondroot[i], e.relCondroot[j])),
                 RDiv(RMul(e.lyrRootCo[i], e.lyrRootCo[j]), RSub(One, Rx)))
    ELSE Zero

\* the local array hydredmat[nlyrs][nlyrs] (1149): the cells hold values, each
\* computed once when it is assigned
hydredmat(cells) == CHOOSE mat \in {cells} : mat = cells

\* a regression whose pair loop starts at the top layer
hydredmat_pairs_top(e) ==
    hydredmat([i \in Lyrs(e.nlyrs) |-> [j \in Lyrs(e.nlyrs) |->
        IF i = j THEN Zero
        ELSE IF i < j THEN hydred_pair(e, i, j)
        ELSE RNeg(hydred_pair(e, j, i))]])

\* hydredmat after the first two loops (1153-1181): row and column 0 and the
\* diagonal are 0, the rest is antisymmetric
hydredmat_pairs(e) ==
    hydredmat([i \in Lyrs(e.nlyrs) |-> [j \in Lyrs(e.nlyrs) |->
        IF i = 0 \/ j = 0 \/ i = j THEN Zero
        ELSE IF i < j THEN hydred_pair(e, i, j)
        ELSE RNeg(hydred_pair(e, j, i))]])

\* the scaling loop (1183-1196) from row i on: a row that would take more than
\* the layer's water above wilting point is scaled down together with its column
RECURSIVE hydredmat_scale(_, _, _)
hydredmat_scale(e, i, mat) ==
    IF i >= e.nlyrs THEN mat
    ELSE LET swa == fmax(Zero, RSub(e.swc[i], e.swcwp[i]))
             Scaled(f) ==
                 [a \in Lyrs(e.nlyrs) |-> [b \in Lyrs(e.nlyrs) |->
                     IF a = i /\ b = i THEN RMul(RMul(mat[a][b], f), f)
                     ELSE IF a = i \/ b = i THEN RMul(mat[a][b], f)
                     ELSE mat[a][b]]]
             Row(hydred_sum) ==
                 IF LT(hydred_sum, Zero) /\ GT(RNeg(hydred_sum), swa)
                 THEN hydredmat(Scaled(RDiv(swa, RNeg(hydred_sum))))
                 ELSE mat
         IN hydredmat_scale(e, i + 1, Row(RSum(mat[i], 0, e.nlyrs)))

\* hydraulic_redistribution (1123-1205): the result is [swc, hydred]
hydraulic_redistribution(swc_, swcwp, lyrRootCo, hydred, nlyrs, maxCondroot, swp50, shapeCond, scale, frozen) ==
    LET Apply(mat) ==
            LET Gain(h) == [swc |-> [i \in Lyrs(nlyrs) |-> RAdd(swc_[i], h[i])],
                            hydred |-> h]
            IN Gain([i \in Lyrs(nlyrs) |->
                        RSum([j \in Lyrs(nlyrs) |-> RMul(mat[i][j], scale)], 0, nlyrs)])
        Matrix(e) == Apply(hydredmat_scale(e, 0, hydredmat_pairs(e)))
        Potentials(swp) ==
            Matrix([nlyrs |-> nlyrs, swc |-> swc_, swcwp |-> swcwp,
                    lyrRootCo |-> lyrRootCo, maxCondroot |-> maxCondroot,
                    lyrFrozen |-> frozen, swp |-> swp,
                    swpwp |-> [i \in Lyrs(nlyrs) |-> SWCbulk2SWPmatric(Zero, swcwp[i], i)],
                    relCondroot |-> [i \in Lyrs(nlyrs) |->
                        fmin(One, fmax(Zero,
                            RDiv(One, RAdd(One, powe(RDiv(swp[i], swp50), shapeCond)))))]])
    IN Potentials([i \in Lyrs(nlyrs) |-> SWCbulk2SWPmatric(Zero, swc_[i], i)])

----------------------------------------------------------------------------
(* One day of the sequence set_frozen_unfrozen (the flags as the day before left
   them), infiltrate_water_high, remove_from_soil for bare-soil evaporation and
   for transpiration, infiltrate_water_low, hydraulic_redistribution,
   soil_temperature *)

\* the soil profiles of these sites, one to three layers
FlowProfiles ==
    {p \in {[i \in Lyrs(1) |-> LyrThin],
            [i \in Lyrs(2) |-> IF i = 0 THEN LyrThin ELSE LyrThick],
            [i \in Lyrs(2) |-> LyrThick],
            [i \in Lyrs(3) |-> LyrThin],
            [i \in Lyrs(3) |-> IF i = 2 THEN LyrThick ELSE LyrThin],
            [i \in Lyrs(3) |-> LyrThick]} : Cardinality(DOMAIN p) <= MaxFlowLyrs}

\* the temperature grid of these sites: the deepest of MaxDepthSet
FlowMaxDepth == RMul(DeltaX, I(MaxRgr + 1))

\* what lies behind the last element of the per-layer arrays of the caller: zeros
\* or foreign values, here a cell that holds more than the cell behind swcsat
FlowBehindSet ==
    {[width |-> Zero, val |-> Zero, swc |-> Zero, swcsat |-> Zero],
     [width |-> I(10), val |-> One, swc |-> I(3), swcsat |-> One]}

\* one impermeability for all layers of a site
ImpermSet == {Zero, <<1, 2>>, One}

\* SW_Site with the constants of the water steps: slow drainage, bare-soil
\* evaporation from the top layer, transpiration from the second layer (the
\* top layer of a one-layer profile), the roots below the top layer, a root
\* conductance that no dryness reduces (swp50 beyond every potential)
MkFlowSite(types, imperm, behind) ==
    [MkTempSite(types, FlowMaxDepth, behind) EXCEPT
        !.impermeability = [i \in DOMAIN types |-> imperm]] @@
    [sdrainpar |-> <<1, 4>>, sdraindpth |-> I(5),
     evap_coeff |-> [i \in DOMAIN types |-> IF i = 0 THEN One ELSE Zero],
     transp_coeff |-> [i \in DOMAIN types |->
                          IF i = (IF Cardinality(DOMAIN types) > 1 THEN 1 ELSE 0)
                          THEN One ELSE Zero],
     lyrRootCo |-> [i \in DOMAIN types |-> IF i = 0 THEN Zero ELSE <<1, 2>>],
     maxCondroot |-> <<3, 5>>, swp50 |-> <<1, 0>>, shapeCond |-> 2,
     hydredScale |-> One]

\* the days: a cold day under snow without liquid input, a day of rain with
\* evaporation and transpiration, a dry day of frost on bare ground
DaySet ==
    {[pptleft |-> Zero, evapRate |-> Zero, transpRate |-> Zero,
      airTemp |-> I(-10), pet |-> <<2, 5>>, biomass |-> I(150),
      snowdepth |-> I(20), snow |-> <<10, 3>>],
     [pptleft |-> I(2), evapRate |-> <<1, 4>>, transpRate |-> <<1, 4>>,
      airTemp |-> I(4), pet |-> One, biomass |-> I(300),
      snowdepth |-> Zero, snow |-> Zero],
     [pptleft |-> Zero, evapRate |-> <<1, 4>>, transpRate |-> Zero,
      airTemp |-> I(-6), pet |-> <<2, 5>>, biomass |-> Zero,
      snowdepth |-> Zero, snow |-> Zero]}

\* a layer at the start of the day: wet and cold (it is frozen), moist and cold,
\* moist and warm, wet and warm
WetCold(t) == [swc |-> t.swcsat, sTemp |-> I(-2)]
LayerStartSet(t) ==
    {WetCold(t),
     [swc |-> t.swcfc, sTemp |-> I(-2)],
     [swc |-> t.swcfc, sTemp |-> I(3)],
     [swc |-> t.swcsat, sTemp |-> I(3)]}

\* the layers 0 .. n - 1 of an array that carries the cell behind them
Front(arr, n) == [i \in Lyrs(n) |-> arr[i]]

InfiltrateWaterHigh ==
    /\ pc = "frozen_done"
    /\ flow.swcBefore = swc
    /\ \E r \in {infiltrate_water_high(Ext(swc, site.nlyrs, flow.swcBehind),
                     flow.drain, flow.drainout, flow.pptleft, site.nlyrs,
                     site.swcfc, Ext(site.swcsat, site.nlyrs, site.behind.swcsat),
                     site.impermeability, lyrFrozen)} :
        /\ swc' = Front(r.swc, site.nlyrs)
        /\ flow' = [flow EXCEPT !.swcBehind = r.swc[site.nlyrs], !.drain = r.drain,
                                !.drainout = r.drainout,
                                !.standingWater = r.standingWater]
    /\ pc' = "high_done"
    /\ UNCHANGED <<markovVars, sites, icpt, snowCall, site, sTemp, lyrFrozen, tempVars, day, wth>>

RemoveEvaporation ==
    /\ pc = "high_done"
    /\ \E r \in {remove_from_soil(swc, flow.evap, flow.aet, site.nlyrs,
                     site.evap_coeff, flow.evapRate, site.swcmin, lyrFrozen)} :
        /\ swc' = r.swc
        /\ flow' = [flow EXCEPT !.evap = r.qty, !.aet = r.aet]
    /\ pc' = "evap_done"
    /\ UNCHANGED <<markovVars, sites, icpt, snowCall, site, sTemp, lyrFrozen, tempVars, day, wth>>

RemoveTranspiration ==
    /\ pc = "evap_done"
    /\ \E r \in {remove_from_soil(swc, flow.transp, flow.aet, site.nlyrs,
                     site.transp_coeff, flow.transpRate, site.swcmin, lyrFrozen)} :
        /\ swc' = r.swc
        /\ flow' = [flow EXCEPT !.transp = r.qty, !.aet = r.aet]
    /\ pc' = "transp_done"
    /\ UNCHANGED <<markovVars, sites, icpt, snowCall, site, sTemp, lyrFrozen, tempVars, day, wth>>

InfiltrateWaterLow ==
    /\ pc = "transp_done"
    /\ \E r \in {infiltrate_water_low(Ext(swc, site.nlyrs, flow.swcBehind),
                     flow.drain, flow.drainout, site.nlyrs, site.sdrainpar,
                     site.sdraindpth, site.swcfc, site.width, site.swcmin,
                     Ext(site.swcsat, site.nlyrs, site.behind.swcsat),
                     site.impermeability, flow.standingWater, lyrFrozen)} :
        /\ swc' = Front(r.swc, site.nlyrs)
        /\ flow' = [flow EXCEPT !.swcBehind = r.swc[site.nlyrs], !.drain = r.drain,
                                !.drainout = r.drainout,
                                !.standingWater = r.standingWater]
    /\ pc' = "low_done"
    /\ UNCHANGED <<markovVars, sites, icpt, snowCall, site, sTemp, lyrFrozen, tempVars, day, wth>>

HydraulicRedistribution ==
    /\ pc = "low_done"
    /\ \E r \in {hydraulic_redistribution(swc, site.swcwp, site.lyrRootCo,
                     flow.hydred, site.nlyrs, site.maxCondroot, site.swp50,
                     site.shapeCond, site.hydredScale, lyrFrozen)} :
        /\ swc' = r.swc
        /\ flow' = [flow EXCEPT !.hydred = r.hydred]
    /\ pc' = "hydred_done"
    /\ UNCHANGED <<markovVars, sites, icpt, snowCall, site, sTemp, lyrFrozen, tempVars, day, wth>>

\* soil_temperature at the end of the day, on the water content the water steps
\* left and with the day's aet
SoilTemperatureOfDay ==
    /\ pc = "hydred_done"
    /\ \E junk \in LocalJunkSet :
        SoilTemperatureCall([airTemp |-> flow.airTemp, pet |-> flow.pet,
                             aet |-> flow.aet, biomass |-> flow.biomass,
                             snowdepth |-> flow.snowdepth, snow |-> flow.snow], junk)
    /\ day' = day + 1
    /\ pc' = "day_done"
    /\ UNCHANGED <<markovVars, sites, icpt, snowCall, site, swc, flow>>

\* the start of the day: the day's inputs are drawn, the flux arrays and the
\* day's aet are 0, the caller has copied the water content.  Any set of layers
\* is frozen on an impermeable site, at most one layer on the others (each
\* frozen layer that percolates into the next divides the grid of the values
\* by 100).
InitDay ==
    /\ OthersIdle
    /\ icpt = IcptIdle
    /\ snowCall = SnowIdle
    /\ pc = "frozen_args"
    /\ TempIdle
    /\ \E types \in FlowProfiles :
        /\ \E start \in [DOMAIN types -> UNION {LayerStartSet(t) : t \in LyrTypes}] :
            /\ \A i \in DOMAIN types : start[i] \in LayerStartSet(types[i])
            /\ swc = [i \in DOMAIN types |-> start[i].swc]
            /\ sTemp = [i \in DOMAIN types |-> start[i].sTemp]
        /\ lyrFrozen = [i \in DOMAIN types |-> 0]
        /\ \E behind \in FlowBehindSet, imperm \in ImpermSet, f \in DaySet :
            /\ \/ imperm = One
               \/ Cardinality({i \in DOMAIN types :
                                  swc[i] = WetCold(types[i]).swc
                                  /\ sTemp[i] = WetCold(types[i]).sTemp}) <= 1
            /\ site = MkFlowSite(types, imperm, behind)
            /\ flow = [FlowIdle EXCEPT
                          !.pptleft = f.pptleft, !.evapRate = f.evapRate,
                          !.transpRate = f.transpRate, !.airTemp = f.airTemp,
                          !.pet = f.pet, !.biomass = f.biomass,
                          !.snowdepth = f.snowdepth, !.snow = f.snow,
                          !.drain = [i \in DOMAIN types |-> Zero],
                          !.evap = [i \in DOMAIN types |-> Zero],
                          !.transp = [i \in DOMAIN types |-> Zero],
                          !.hydred = [i \in DOMAIN types |-> Zero],
                          !.swcBehind = behind.swc,
                          !.swcBefore = swc]

NextDay ==
    \/ SetFrozenCall
    \/ InfiltrateWaterHigh
    \/ RemoveEvaporation
    \/ RemoveTranspiration
    \/ InfiltrateWaterLow
    \/ HydraulicRedistribution
    \/ SoilTemperatureOfDay

SpecDay == InitDay /\ [][NextDay]_vars

----------------------------------------------------------------------------
(* Direct calls of hydraulic_redistribution on profiles of 10 cm layers *)

\* the largest profile of these calls
MaxHydLyrs == 4

\* the water content of a layer: between swcmin and the wilting point, at field
\* capacity, at saturation; the deepest layer can also be at its wilting point
HydSwcSet == {<<3, 4>>, LyrThin.swcfc, LyrThin.swcsat}

\* the fraction of the active roots in a layer
RootCoSet == {Zero, <<1, 4>>, <<1, 2>>, One}

\* the root fractions of a profile: none or half of the roots in the top layer,
\* and a sum of 1 over the layers
RootProfiles(n) ==
    {r \in [Lyrs(n) -> RootCoSet] :
        r[0] \in {Zero, <<1, 2>>} /\ (n = 1 \/ EQ(RSum(r, 0, n), One))}

\* the frozen flags of a profile: no layer is frozen, or the second one is
FrozenPatterns(n) ==
    {[i \in Lyrs(n) |-> IF i = k THEN 1 ELSE 0] : k \in {1, n}}

\* the fraction of the vegetation type that scales the redistribution
HydScaleSet == {<<1, 2>>, One}

\* the site of a call: maxCondroot = 2.4 cm/-bar/day, conductance halved at 9 -bar
MkHydSite(n, roots, scale) ==
    [MkFlowSite([i \in Lyrs(n) |-> LyrThin], Zero,
                [width |-> Zero, val |-> Zero, swc |-> Zero, swcsat |-> Zero])
        EXCEPT !.lyrRootCo = roots, !.hydredScale = scale,
               !.maxCondroot = <<12, 5>>, !.swp50 = I(9)]

\* the state in which the caller is about to call hydraulic_redistribution
InitHydred ==
    /\ OthersIdle
    /\ icpt = IcptIdle
    /\ snowCall = SnowIdle
    /\ pc = "low_done"
    /\ TempIdle
    /\ \E n \in 1 .. MaxHydLyrs :
        /\ \E roots \in RootProfiles(n), scale \in HydScaleSet :
              site = MkHydSite(n, roots, scale)
        /\ swc \in [Lyrs(n) -> HydSwcSet \cup {LyrThin.swcwp}]
        /\ swc[0] = LyrThin.swcfc
        /\ \A i \in Lyrs(n) : swc[i] = LyrThin.swcwp => i = n - 1
        /\ sTemp = [i \in Lyrs(n) |-> Zero]
        /\ lyrFrozen \in FrozenPatterns(n)
        /\ flow = [FlowIdle EXCEPT
                      !.drain = [i \in Lyrs(n) |-> Zero],
                      !.evap = [i \in Lyrs(n) |-> Zero],
                      !.transp = [i \in Lyrs(n) |-> Zero],
                      !.hydred = [i \in Lyrs(n) |-> Zero],
                      !.swcBefore = swc]

NextHydred == HydraulicRedistribution

SpecHydred == InitHydred /\ [][NextHydred]_vars

----------------------------------------------------------------------------
(* The weather generator (SW_Markov.c): SW_MKV_construct, then the two input
   files as SW_MKV_setup reads them, then SW_MKV_today once a day *)

\* Times.h: the days of a week, the largest day of a year, and the week
\* (base 0) of a day of the year (base 1)
WKDAYS == 7
MAX_DAYS == 366
MAX_WEEKS == 53
doy2week(doy) == (doy - 1) \div WKDAYS

\* the number of days generated, and the days of the year (base 0) and the
\* weeks they are in
MaxMkvDays == 3
DoySet == 0 .. (MaxMkvDays - 1)
WeekSet == {doy2week(d + 1) : d \in DoySet}

\* the largest whole number whose square is at most n, counted up from r
RECURSIVE isqrt(_, _)
isqrt(n, r) == IF (r + 1) * (r + 1) > n THEN r ELSE isqrt(n, r + 1)

\* math.h sqrt: NaN below 0; the exact root where it is a fraction, and else
\* the root to 1/16 of the denominator
sqrt(x) ==
    IF IsNaN(x) \/ LT(x, Zero) THEN NaN
    ELSE IF ~ IsFinite(x) THEN x
    ELSE LET Roots(n, d) ==
                 IF n * n = x[1] /\ d * d = x[2] THEN <<n, d>>
                 ELSE RNorm(isqrt(x[1] * x[2] * 256, 0), x[2] * 16)
         IN Roots(isqrt(x[1], 0), isqrt(x[2], 0))

\* rands.c RandNorm(mean, stddev): z is the standard normal variate it draws
RandNorm(mean, stddev, z) == RAdd(mean, RMul(stddev, z))

\* temp_correct_wetdry (85-98): the result is [tmax, tmin]
temp_correct_wetdry(tmax, tmin, rain, cfmax_wet, cfmax_dry, cfmin_wet, cfmin_dry) ==
    LET Corrected(t, cfmin) == [tmax |-> t, tmin |-> fmin(t, RAdd(tmin, cfmin))]
    IN IF GT(rain, Zero) THEN Corrected(RAdd(tmax, cfmax_wet), cfmin_wet)
       ELSE Corrected(RAdd(tmax, cfmax_dry), cfmin_dry)

\* a regression that draws without looking at the covariance matrix
mvnorm_unchecked(wTmax, wTmin, wTmax_var, wTmin_var, wT_covar, z1, z2) ==
    LET Draw(wTmax_sd, vc10, s) ==
            IF FALSE THEN [fatal |-> TRUE, vc10 |-> vc10]
            ELSE LET Mean(vc11, t) ==
                         [fatal |-> FALSE, vc10 |-> vc10, vc11 |-> vc11, tmax |-> t,
                          tmin |-> fmin(t, RAdd(RAdd(RMul(vc10, z1), RMul(vc11, z2)), wTmin))]
                 IN Mean(IF EQ(wTmin_var, s) THEN Zero ELSE sqrt(RSub(wTmin_var, s)),
                         RAdd(RMul(wTmax_sd, z1), wTmax))
        Cov(wTmax_sd, vc10) == Draw(wTmax_sd, vc10, RMul(vc10, vc10))
        Sd(wTmax_sd) ==
            Cov(wTmax_sd, IF GT(wTmax_sd, Zero) THEN RDiv(wT_covar, wTmax_sd) ELSE Zero)
    IN Sd(sqrt(wTmax_var))

\* mvnorm (126-183) with the two standard normal variates z1, z2 it draws: the
\* result is [fatal, vc10, vc11, tmax, tmin]; LogError with LOGFATAL ends the
\* run, so that after it nothing is computed and tmax, tmin are not written
mvnorm(wTmax, wTmin, wTmax_var, wTmin_var, wT_covar, z1, z2) ==
    LET Draw(wTmax_sd, vc10, s) ==
            IF GT(s, wTmin_var) THEN [fatal |-> TRUE, vc10 |-> vc10]
            ELSE LET Mean(vc11, t) ==
                         [fatal |-> FALSE, vc10 |-> vc10, vc11 |-> vc11, tmax |-> t,
                          tmin |-> fmin(t, RAdd(RAdd(RMul(vc10, z1), RMul(vc11, z2)), wTmin))]
                 IN Mean(IF EQ(wTmin_var, s) THEN Zero ELSE sqrt(RSub(wTmin_var, s)),
                         RAdd(RMul(wTmax_sd, z1), wTmax))
        Cov(wTmax_sd, vc10) == Draw(wTmax_sd, vc10, RMul(vc10, vc10))
        Sd(wTmax_sd) ==
            Cov(wTmax_sd, IF GT(wTmax_sd, Zero) THEN RDiv(wT_covar, wTmax_sd) ELSE Zero)
    IN Sd(sqrt(wTmax_var))

\* SW_MKV_construct (200-219): the arrays are allocated with calloc, the
\* weekly arrays are static
MkvConstructed ==
    [ppt_events |-> 0,
     wetprob |-> [d \in DoySet |-> Zero], dryprob |-> [d \in DoySet |-> Zero],
     avg_ppt |-> [d \in DoySet |-> Zero], std_ppt |-> [d \in DoySet |-> Zero],
     u_cov |-> [w \in WeekSet |-> <<Zero, Zero>>],
     v_cov |-> [w \in WeekSet |-> <<<<Zero, Zero>>, <<Zero, Zero>>>>],
     cfxw |-> [w \in WeekSet |-> Zero], cfxd |-> [w \in WeekSet |-> Zero],
     cfnw |-> [w \in WeekSet |-> Zero], cfnd |-> [w \in WeekSet |-> Zero]]

\* a regression that takes the probability of a wet day after a dry one on
\* every day
SW_MKV_today_dryprob(m, doy0, rain, p, z, z1, z2) ==
    LET Temp(prob, r, week) ==
            LET Wet(mv) ==
                    IF mv.fatal
                    THEN [fatal |-> TRUE, rain |-> r, prob |-> prob, mv |-> mv,
                          ppt_events |-> m.ppt_events + (IF GT(r, Zero) THEN 1 ELSE 0)]
                    ELSE LET Out(t) ==
                                 [fatal |-> FALSE, rain |-> r, prob |-> prob, mv |-> mv,
                                  ppt_events |->
                                      m.ppt_events + (IF GT(r, Zero) THEN 1 ELSE 0),
                                  tmax |-> t.tmax, tmin |-> t.tmin]
                         IN Out(temp_correct_wetdry(mv.tmax, mv.tmin, r,
                                    m.cfxw[week], m.cfxd[week], m.cfnw[week], m.cfnd[week]))
            IN Wet(mvnorm(m.u_cov[week][1], m.u_cov[week][2],
                          m.v_cov[week][1][1], m.v_cov[week][2][2], m.v_cov[week][2][1],
                          z1, z2))
        Rain(prob) ==
            Temp(prob,
                 IF LE(p, prob) THEN fmax(Zero, RandNorm(m.avg_ppt[doy0], m.std_ppt[doy0], z))
                 ELSE Zero,
                 doy2week(doy0 + 1))
    IN Rain(m.dryprob[doy0])

\* SW_MKV_today (279-334) on yesterday's rain with the variates it draws: p
\* uniform, z, z1 and z2 standard normal; the result is [fatal, rain,
\* ppt_events, prob, mv] and, unless the draw of the temperatures was fatal,
\* [tmax, tmin]
SW_MKV_today(m, doy0, rain, p, z, z1, z2) ==
    LET Temp(prob, r, week) ==
            LET Wet(mv) ==
                    IF mv.fatal
                    THEN [fatal |-> TRUE, rain |-> r, prob |-> prob, mv |-> mv,
                          ppt_events |-> m.ppt_events + (IF GT(r, Zero) THEN 1 ELSE 0)]
                    ELSE LET Out(t) ==
                                 [fatal |-> FALSE, rain |-> r, prob |-> prob, mv |-> mv,
                                  ppt_events |->
                                      m.ppt_events + (IF GT(r, Zero) THEN 1 ELSE 0),
                                  tmax |-> t.tmax, tmin |-> t.tmin]
                         IN Out(temp_correct_wetdry(mv.tmax, mv.tmin, r,
                                    m.cfxw[week], m.cfxd[week], m.cfnw[week], m.cfnd[week]))
            IN Wet(mvnorm(m.u_cov[week][1], m.u_cov[week][2],
                          m.v_cov[week][1][1], m.v_cov[week][2][2], m.v_cov[week][2][1],
                          z1, z2))
        Rain(prob) ==
            Temp(prob,
                 IF LE(p, prob) THEN fmax(Zero, RandNorm(m.avg_ppt[doy0], m.std_ppt[doy0], z))
                 ELSE Zero,
                 doy2week(doy0 + 1))
    IN Rain(IF GT(rain, Zero) THEN m.wetprob[doy0] ELSE m.dryprob[doy0])

\* SW_MKV_read_prob (340-417) from line i of the file on: a line is the number
\* of items sscanf converted and the five items; the result is [fatal, m]
RECURSIVE SW_MKV_read_prob(_, _, _)
SW_MKV_read_prob(m, file, i) ==
    IF i > Len(file) \/ i - 1 = MAX_DAYS THEN [fatal |-> FALSE, m |-> m]
    ELSE LET l == file[i]
         IN IF \/ l.x < 5
               \/ l.day < 1 \/ l.day > MAX_DAYS
               \/ ~ IsFinite(l.wet) \/ LT(l.wet, Zero) \/ GT(l.wet, One)
               \/ ~ IsFinite(l.dry) \/ LT(l.dry, Zero) \/ GT(l.dry, One)
               \/ ~ IsFinite(l.avg) \/ LT(l.avg, Zero)
               \/ ~ IsFinite(l.std) \/ LT(l.std, Zero)
            THEN [fatal |-> TRUE, m |-> m]
            ELSE SW_MKV_read_prob(
                     [m EXCEPT !.wetprob[l.day - 1] = l.wet, !.dryprob[l.day - 1] = l.dry,
                               !.avg_ppt[l.day - 1] = l.avg, !.std_ppt[l.day - 1] = l.std],
                     file, i + 1)

\* SW_MKV_read_cov (424-513) from line i of the file on: a line is the number
\* of items sscanf converted and the eleven items; the result is [fatal, m]
RECURSIVE SW_MKV_read_cov(_, _, _)
SW_MKV_read_cov(m, file, i) ==
    IF i > Len(file) \/ i - 1 = MAX_WEEKS THEN [fatal |-> FALSE, m |-> m]
    ELSE LET l == file[i]
         IN IF \/ l.x < 11
               \/ l.week < 1 \/ l.week > MAX_WEEKS
               \/ ~ IsFinite(l.t1) \/ ~ IsFinite(l.t2)
               \/ ~ IsFinite(l.t3) \/ ~ IsFinite(l.t4)
               \/ ~ IsFinite(l.t5) \/ ~ IsFinite(l.t6)
               \/ ~ IsFinite(l.cfxw) \/ ~ IsFinite(l.cfxd)
               \/ ~ IsFinite(l.cfnw) \/ ~ IsFinite(l.cfnd)
            THEN [fatal |-> TRUE, m |-> m]
            ELSE SW_MKV_read_cov(
                     [m EXCEPT !.u_cov[l.week - 1] = <<l.t1, l.t2>>,
                               !.v_cov[l.week - 1] = <<<<l.t3, l.t4>>, <<l.t5, l.t6>>>>,
                               !.cfxw[l.week - 1] = l.cfxw, !.cfxd[l.week - 1] = l.cfxd,
                               !.cfnw[l.week - 1] = l.cfnw, !.cfnd[l.week - 1] = l.cfnd],
                     file, i + 1)

\* the values of a line of the probability file: the wet-wet chain of
\* probability 1 with 1 cm a day, an even chance with a spread, and three
\* lines the reader refuses
ProbLineSet ==
    {[wet |-> One, dry |-> Zero, avg |-> One, std |-> Zero],
     [wet |-> <<1, 2>>, dry |-> <<1, 2>>, avg |-> One, std |-> One],
     [wet |-> I(2), dry |-> Zero, avg |-> One, std |-> Zero],
     [wet |-> One, dry |-> Zero, avg |-> I(-1), std |-> Zero],
     [wet |-> One, dry |-> Zero, avg |-> One, std |-> <<1, 0>>]}

\* the probability files: a line for each day with the same values, with all
\* five items or with the last one missing
ProbFiles ==
    {[d \in 1 .. MaxMkvDays |->
         [x |-> x, day |-> d, wet |-> l.wet, dry |-> l.dry, avg |-> l.avg, std |-> l.std]] :
     l \in ProbLineSet, x \in {4, 5}}

\* the weekly values of the covariance file: the variance of tmax (one of them
\* below 0), the covariance, the variance of tmin, and the four correction
\* factors: none, or ones that pull tmax below tmin on wet or on dry days
VarMaxSet == {I(-1), Zero, One}
CovarSet == {Zero, I(2)}
VarMinSet == {Zero, One, I(4)}
CorrectionSet ==
    {[cfxw |-> Zero, cfxd |-> Zero, cfnw |-> Zero, cfnd |-> Zero],
     [cfxw |-> I(-8), cfxd |-> Zero, cfnw |-> I(8), cfnd |-> Zero],
     [cfxw |-> Zero, cfxd |-> I(-8), cfnw |-> Zero, cfnd |-> I(8)]}

\* the covariance files: a line for each week with mean temperatures of 10 and
\* 9 C, and files with an infinite variance, a week 0 or a missing item
CovFiles ==
    {[w \in 1 .. Cardinality(WeekSet) |->
         [x |-> 11, week |-> w, t1 |-> I(10), t2 |-> I(9), t3 |-> t3, t4 |-> t5,
          t5 |-> t5, t6 |-> t6, cfxw |-> cf.cfxw, cfxd |-> cf.cfxd,
          cfnw |-> cf.cfnw, cfnd |-> cf.cfnd]] :
     t3 \in VarMaxSet, t5 \in CovarSet, t6 \in VarMinSet, cf \in CorrectionSet}
    \cup
    {[w \in 1 .. Cardinality(WeekSet) |->
         [x |-> x, week |-> w - off, t1 |-> I(10), t2 |-> I(5), t3 |-> t3, t4 |-> Zero,
          t5 |-> Zero, t6 |-> One, cfxw |-> Zero, cfxd |-> Zero,
          cfnw |-> Zero, cfnd |-> Zero]] :
     x \in {10, 11}, off \in {0, 1}, t3 \in {One, <<1, 0>>}}

\* the variates of a day: p of RandUni in [0, 1), and the standard normal ones
UniSet == {Zero, <<1, 2>>, <<3, 4>>}
NormSet == {I(-1), One}
PptNormSet == {I(-2), One}

\* yesterday's rain as the caller has it before the first generated day
RainStartSet == {Zero, <<1, 2>>}

InitMarkov ==
    /\ icpt = IcptIdle
    /\ snowCall = SnowIdle
    /\ EngineIdle
    /\ sites = <<>>
    /\ SW_Markov = MkvConstructed
    /\ \E r \in RainStartSet :
        mkv = [status |-> "constructed", doy0 |-> 0, rain |-> r, tmax |-> Zero,
               tmin |-> Zero, prob |-> Zero, z1 |-> Zero, z2 |-> Zero,
               mv |-> [fatal |-> FALSE]]

MkvReadProb ==
    /\ mkv.status = "constructed"
    /\ \E file \in ProbFiles : \E r \in {SW_MKV_read_prob(SW_Markov, file, 1)} :
        /\ SW_Markov' = r.m
        /\ mkv' = [mkv EXCEPT !.status = IF r.fatal THEN "fatal" ELSE "prob_read"]
    /\ UNCHANGED <<icpt, snowCall, engineVars, sites>>

MkvReadCov ==
    /\ mkv.status = "prob_read"
    /\ \E file \in CovFiles : \E r \in {SW_MKV_read_cov(SW_Markov, file, 1)} :
        /\ SW_Markov' = r.m
        /\ mkv' = [mkv EXCEPT !.status = IF r.fatal THEN "fatal" ELSE "ready"]
    /\ UNCHANGED <<icpt, snowCall, engineVars, sites>>

MkvToday ==
    /\ mkv.status = "ready"
    /\ mkv.doy0 < MaxMkvDays
    /\ \E p \in UniSet, z \in PptNormSet, z1 \in NormSet, z2 \in NormSet :
       \E r \in {SW_MKV_today(SW_Markov, mkv.doy0, mkv.rain, p, z, z1, z2)} :
        /\ SW_Markov' = [SW_Markov EXCEPT !.ppt_events = r.ppt_events]
        /\ mkv' = [mkv EXCEPT !.status = IF r.fatal THEN "fatal" ELSE "ready",
                              !.doy0 = @ + 1,
                              !.rain = r.rain,
                              !.tmax = IF r.fatal THEN @ ELSE r.tmax,
                              !.tmin = IF r.fatal THEN @ ELSE r.tmin,
                              !.prob = r.prob, !.z1 = z1, !.z2 = z2, !.mv = r.mv]
    /\ UNCHANGED <<icpt, snowCall, engineVars, sites>>

NextMarkov == MkvReadProb \/ MkvReadCov \/ MkvToday

SpecMarkov == InitMarkov /\ [][NextMarkov]_vars

----------------------------------------------------------------------------
(* A driver that runs two sites in one process and calls soil_temperature for
   them in any order: the globals of SW_Flow_lib.c (104-113) are the process's,
   the profile, the water content and the layer temperatures are each site's.
   The sites are two different profiles of MaxLyrs layers with a grid of 30 or
   45 cm, both wet and cold or both at field capacity at the start *)

\* the number of soil_temperature calls of the process
MaxSiteCalls == 3

\* a site's days: a cold day under snow and a mild snow-free day
SiteWeatherSet == {w \in WeatherSet : w.biomass = I(150) /\ w.airTemp # I(2)}

\* the globals of a process in which soil_temperature was not yet called
FreshGlobals ==
    [stValues |-> StZero, lyrFrozen |-> [i \in Lyrs(MaxLyrs) |-> 0],
     soil_temp_error |-> 0, soil_temp_init |-> 0, fusion_pool_init |-> 0,
     surfaceTemp |-> [d \in {Yesterday, Today} |-> Zero]]

\* zeros behind the per-layer arrays of a site
SiteBehind == [width |-> Zero, val |-> Zero]

\* a site of the driver: its profile p, its water content and layer
\* temperatures, the number of its calls, and own: the globals and layer
\* temperatures that the same calls give in a process that runs this site alone
MkDriverSite(p, start) ==
    [p |-> p, swc |-> start.swc, sTemp |-> start.sTemp, calls |-> 0,
     own |-> FreshGlobals @@ [sTemp |-> start.sTemp]]

InitSites ==
    /\ icpt = IcptIdle
    /\ snowCall = SnowIdle
    /\ SW_Markov = <<>>
    /\ mkv = [status |-> "none"]
    /\ pc = "sites_idle"
    /\ site = [nlyrs |-> 0]
    /\ swc = <<>>
    /\ sTemp = <<>>
    /\ lyrFrozen = FreshGlobals.lyrFrozen
    /\ TempIdle
    /\ flow = FlowIdle
    /\ \E ta \in Profiles(MaxLyrs), tb \in Profiles(MaxLyrs),
          da \in MaxDepthSet, db \in MaxDepthSet, cold \in BOOLEAN :
       \E sa \in StartSet(ta), sb \in StartSet(tb) :
        /\ <<ta, da>> # <<tb, db>>
        /\ (sa.sTemp[0] = I(-2)) = cold
        /\ (sb.sTemp[0] = I(-2)) = cold
        /\ sites = [cur |-> "none",
                    of |-> [A |-> MkDriverSite(MkTempSite(ta, da, SiteBehind), sa),
                            B |-> MkDriverSite(MkTempSite(tb, db, SiteBehind), sb)]]

\* the driver makes a site current (SW_Site and the site's arrays) and calls
\* soil_temperature with the site's inputs of the day
SiteCall ==
    /\ pc \in {"sites_idle", "site_done"}
    /\ day < MaxSiteCalls
    /\ \E s \in {"A", "B"}, w \in SiteWeatherSet, junk \in {NaN} :
       \E d \in {sites.of[s]} :
       \E r \in {soil_temperature(TempGlobals, w @@ [junk |-> junk], d.swc, d.sTemp, d.p)},
          alone \in {soil_temperature(d.own, w @@ [junk |-> junk], d.swc, d.own.sTemp, d.p)} :
           /\ site' = d.p
           /\ swc' = d.swc
           /\ sTemp' = r.sTemp
           /\ surfaceTemp' = r.surfaceTemp
           /\ lyrFrozen' = r.lyrFrozen
           /\ stValues' = r.stValues
           /\ soil_temp_error' = r.soil_temp_error
           /\ soil_temp_init' = r.soil_temp_init
           /\ fusion_pool_init' = r.fusion_pool_init
           /\ wth' = w
           /\ sites' = [cur |-> s,
                        of |-> [sites.of EXCEPT ![s] =
                                   [d EXCEPT !.sTemp = r.sTemp, !.calls = @ + 1,
                                             !.own = alone]]]
    /\ day' = day + 1
    /\ pc' = "site_done"
    /\ UNCHANGED <<markovVars, icpt, snowCall, flow>>

NextSites == SiteCall

SpecSites == InitSites /\ [][NextSites]_vars

----------------------------------------------------------------------------
(* A year of daily soil_temperature calls under constant weather: no snow, the
   air at the sub-soil temperature meanAirTemp, no evapotranspiration, a water
   content that stays put.  The runs start in thermal equilibrium with the
   day's surface temperature T1: the grid values are rationals whose
   denominators grow with every day away from an equilibrium *)

MaxConvDays == 365

\* the constant daily inputs: the air at meanAirTemp of MkTempSite, no snow, no
\* actual evapotranspiration, a biomass below bmLimiter (T1 = airTemp + 3) or at
\* bmLimiter (T1 = airTemp)
ConstantWeather(biomass) ==
    [airTemp |-> I(5), pet |-> <<2, 5>>, aet |-> Zero, biomass |-> biomass,
     snowdepth |-> Zero, snow |-> Zero]

\* the profiles of up to MaxLyrs layers with the grids that reach their bottom
FittingSites ==
    {s \in [types : UNION {Profiles(n) : n \in 1 .. MaxLyrs}, theMaxDepth : MaxDepthSet] :
        LE(CumWidth([i \in DOMAIN s.types |-> s.types[i].width],
                    Cardinality(DOMAIN s.types) - 1), s.theMaxDepth)}

\* profiles at the sub-soil temperature under a surface at the same temperature
UniformStarts ==
    {s @@ [biomass |-> I(300), sTemp |-> [i \in DOMAIN s.types |-> I(5)]] :
        s \in FittingSites}

\* profiles on the straight line between T1 = 8 at the surface and meanAirTemp = 5
\* at the bottom of a grid of 30 cm
GradientStarts ==
    {[types |-> [i \in Lyrs(1) |-> LyrThick], theMaxDepth |-> I(30),
      biomass |-> I(150), sTemp |-> [i \in Lyrs(1) |-> I(6)]],
     [types |-> [i \in Lyrs(1) |-> LyrThin], theMaxDepth |-> I(30),
      biomass |-> I(150), sTemp |-> [i \in Lyrs(1) |-> I(7)]],
     [types |-> [i \in Lyrs(2) |-> LyrThin], theMaxDepth |-> I(30),
      biomass |-> I(150), sTemp |-> [i \in Lyrs(2) |-> I(7 - i)]]}

\* one more day of the year: the same inputs as the day before
ConvergenceDay ==
    /\ pc \in {"year_args", "year_done"}
    /\ day < MaxConvDays
    /\ \E junk \in LocalJunkSet :
          SoilTemperatureCall([f \in DOMAIN NoWeather |-> wth[f]], junk)
    /\ day' = day + 1
    /\ pc' = "year_done"
    /\ UNCHANGED <<markovVars, sites, icpt, snowCall, site, swc, flow>>

\* wth holds the constant inputs from the start
InitConverge ==
    /\ OthersIdle
    /\ icpt = IcptIdle
    /\ snowCall = SnowIdle
    /\ pc = "year_args"
    /\ stValues = StZero
    /\ soil_temp_error = 0
    /\ soil_temp_init = 0
    /\ fusion_pool_init = 0
    /\ surfaceTemp = [d \in {Yesterday, Today} |-> Zero]
    /\ day = 0
    /\ flow = FlowIdle
    /\ \E s \in UniformStarts \cup GradientStarts :
        /\ site = MkTempSite(s.types, s.theMaxDepth, SiteBehind)
        /\ swc = [i \in DOMAIN s.types |-> s.types[i].swcfc]
        /\ sTemp = s.sTemp
        /\ lyrFrozen = [i \in DOMAIN s.types |-> 0]
        /\ wth = ConstantWeather(s.biomass)

NextConverge == ConvergenceDay

SpecConverge == InitConverge /\ [][NextConverge]_vars

----------------------------------------------------------------------------
(* Direct calls of soil_temperature_init on profiles at field capacity and 3 C
   whose layers are thinner than, as wide as and wider than the grid spacing *)

\* layer widths [cm]: a third, two thirds, one, four thirds and eight thirds of
\* deltaX
MatrixWidthSet == {I(5), I(10), I(15), I(20), I(40)}

\* a layer of width w with the water contents of LyrThin per cm
MkLyr(w) ==
    [width |-> w, swcmin |-> RMul(w, <<1, 20>>), swcwp |-> RMul(w, <<1, 10>>),
     swcfc |-> RMul(w, <<1, 5>>), swcsat |-> RMul(w, <<2, 5>>), bDensity |-> One]

InitMatrix ==
    /\ OthersIdle
    /\ icpt = IcptIdle
    /\ snowCall = SnowIdle
    /\ pc = "init_args"
    /\ TempIdle
    /\ flow = FlowIdle
    /\ \E n \in 1 .. MaxLyrs : \E widths \in [Lyrs(n) -> MatrixWidthSet] :
        \E types \in {[i \in Lyrs(n) |-> MkLyr(widths[i])]} :
        /\ \E behind \in BehindSet, d \in MaxDepthSet :
              site = MkTempSite(types, d, behind)
        /\ swc = [i \in Lyrs(n) |-> types[i].swcfc]
        /\ sTemp = [i \in Lyrs(n) |-> I(3)]
        /\ lyrFrozen = [i \in Lyrs(n) |-> 0]

NextMatrix == SoilTemperatureInitCall

SpecMatrix == InitMatrix /\ [][NextMatrix]_vars

----------------------------------------------------------------------------
(* remove_from_soil on its own: the two calls of the day, bare-soil evaporation
   and transpiration, on drawn water contents, flags, coefficients and rates *)

\* a layer on entry: at its minimum, a little above it (less than the layer's
\* share of the larger rates), at field capacity, saturated, saturated and frozen
RemoveStartSet(t) ==
    {[swc |-> t.swcmin, frozen |-> 0],
     [swc |-> RAdd(t.swcmin, <<1, 10>>), frozen |-> 0],
     [swc |-> t.swcfc, frozen |-> 0],
     [swc |-> t.swcsat, frozen |-> 0],
     [swc |-> t.swcsat, frozen |-> 1]}

\* the coefficients of removal: none, the top layer only, every layer alike
RemoveCoeffSet(n) ==
    {[i \in Lyrs(n) |-> Zero],
     [i \in Lyrs(n) |-> IF i = 0 THEN One ELSE Zero],
     [i \in Lyrs(n) |-> <<1, 2>>]}

\* the removal rates
RemoveRateSet == {Zero, <<1, 4>>, I(3)}

\* what the output array qty holds on entry: zeros, or the amounts of an earlier
\* call
QtyBeforeSet(n) == {[i \in Lyrs(n) |-> Zero], [i \in Lyrs(n) |-> <<1, 8>>]}

InitRemove ==
    /\ OthersIdle
    /\ icpt = IcptIdle
    /\ snowCall = SnowIdle
    /\ pc = "high_done"
    /\ TempIdle
    /\ \E types \in FlowProfiles :
        /\ \E start \in [DOMAIN types -> UNION {RemoveStartSet(t) : t \in LyrTypes}] :
            /\ \A i \in DOMAIN types : start[i] \in RemoveStartSet(types[i])
            /\ swc = [i \in DOMAIN types |-> start[i].swc]
            /\ lyrFrozen = [i \in DOMAIN types |-> start[i].frozen]
        /\ sTemp = [i \in DOMAIN types |-> IF lyrFrozen[i] = 1 THEN I(-2) ELSE I(3)]
        /\ \E coeff \in RemoveCoeffSet(Cardinality(DOMAIN types)),
              rate \in RemoveRateSet,
              qty \in QtyBeforeSet(Cardinality(DOMAIN types)),
              aet \in {Zero, <<1, 5>>} :
            /\ site = [MkFlowSite(types, Zero, CHOOSE b \in FlowBehindSet : b.swc = Zero)
                          EXCEPT !.evap_coeff = coeff]
            /\ flow = [FlowIdle EXCEPT
                          !.evapRate = rate, !.transpRate = rate, !.aet = aet,
                          !.drain = [i \in DOMAIN types |-> Zero],
                          !.evap = qty, !.transp = qty,
                          !.hydred = [i \in DOMAIN types |-> Zero],
                          !.swcBefore = swc]

NextRemove ==
    \/ RemoveEvaporation
    \/ RemoveTranspiration

SpecRemove == InitRemove /\ [][NextRemove]_vars

----------------------------------------------------------------------------
(* Claims *)

\* the pool cap that applies to the last interception call
MaxPool ==
    CASE icpt.fn \in {"grass", "shrub", "forb"} -> MAX_WINTSTCR(icpt.cov)
      [] icpt.fn = "tree" -> MAX_WINTFOR(icpt.pptIn)
      [] OTHER -> MAX_WINTLIT(icpt.cov)

\* C5: after every interception call (grass, shrub, forb, tree, litter), for every
\* scale in [0,1] and shape parameters of any sign, the intercepted amount lies in
\* [0, min(incoming precipitation, MAX_pool)].
C5_InterceptedWithinPool ==
    icpt.fn # "none" =>
        /\ LE(Zero, icpt.wint)
        /\ LE(icpt.wint, fmin(icpt.pptIn, MaxPool))

\* C6: every interception call returns pptleft_out <= precipitation_in with
\* pptleft_out + intercepted = precipitation_in, and with cover 0 or precipitation 0
\* nothing is intercepted and the precipitation passes through unchanged.
C6_PptleftNeverIncreases ==
    icpt.fn # "none" =>
        /\ LE(icpt.pptleft, icpt.pptIn)
        /\ RAdd(icpt.pptleft, icpt.wint) = icpt.pptIn
        /\ (ZRO(icpt.cov) \/ ZRO(icpt.pptIn)) =>
               (icpt.wint = Zero /\ icpt.pptleft = icpt.pptIn)

\* C7: surface_temperature_under_snow returns 0 for snow = 0, -2 for snow > 0 and
\* airTempAvg >= 0, and 0.3 * airTempAvg * max(1 - 0.15 * snow, 0) - 2 for snow > 0 and
\* airTempAvg < 0; so with snow > 0 it is never above -2, and it is -2 for every air
\* temperature once snow >= 1/0.15.
C7_SurfaceTemperatureUnderSnow ==
    LET t == snowCall.airTempAvg
        s == snowCall.snow
        r == snowCall.tSoilAvg
        k == fmax(RSub(One, RMul(<<15, 100>>, s)), Zero)
    IN  (snowCall.called /\ GE(s, Zero)) =>
            /\ s = Zero => r = Zero
            /\ (GT(s, Zero) /\ GE(t, Zero)) => r = I(-2)
            /\ (GT(s, Zero) /\ LT(t, Zero)) =>
                   r = RSub(RMul(RMul(<<3, 10>>, t), k), I(2))
            /\ GT(s, Zero) => LE(r, I(-2))
            /\ GE(s, <<20, 3>>) => r = I(-2)

\* C7 witness: the call (-10, 1) has returned -4.55, and a call with deep snow and
\* frost is among the calls made
C7_Witness ==
    /\ snowCall.called
    /\ snowCall.airTempAvg = I(-10)
    /\ snowCall.snow = One
    /\ snowCall.tSoilAvg = <<-91, 20>>

\* the threshold rule for layer i, from the layer's temperature t and the current
\* water content: at most -1 C and less than 0.13 * width below saturation
FrozenRule(i, t) ==
    /\ LE(t, I(-1))
    /\ LT(RSub(site.swcsat[i], swc[i]), RMul(<<13, 100>>, site.width[i]))

\* C3: set_frozen_unfrozen sets lyrFrozen[i] = 1 exactly when sTemp[i] <= -1 and
\* swc_sat[i] - swc[i] < 0.13 * width[i], and 0 otherwise, for every layer and
\* whatever the flag was before.
C3_SetFrozenUnfrozen ==
    pc = "frozen_done" =>
        \A i \in Lyrs(site.nlyrs) :
            lyrFrozen[i] = (IF FrozenRule(i, sTemp[i]) THEN 1 ELSE 0)

\* C3 witness: both boundaries in one call: a layer at exactly -1 C and near
\* saturation is frozen, and a layer at exactly swc_sat - 0.13 * width is not although
\* it is colder than -1 C
C3_Witness ==
    /\ pc = "frozen_done"
    /\ site.nlyrs = 2
    /\ sTemp[0] = I(-1) /\ swc[0] = site.swcsat[0] /\ lyrFrozen[0] = 1
    /\ sTemp[1] = I(-2) /\ lyrFrozen[1] = 0
    /\ swc[1] = RSub(site.swcsat[1], RMul(<<13, 100>>, site.width[1]))

\* the states in which a component of the day has just returned
WaterStepDone == pc \in {"high_done", "evap_done", "transp_done", "low_done", "hydred_done"}

\* the flags agree with the threshold rule on the current temperatures and the
\* current water content
FlagsConsistent ==
    \A i \in Lyrs(site.nlyrs) :
        lyrFrozen[i] = (IF FrozenRule(i, sTemp[i]) THEN 1 ELSE 0)

\* C4 as stated: after each water step (infiltrate_water_high, remove_from_soil,
\* infiltrate_water_low, hydraulic_redistribution) as well as after
\* soil_temperature, lyrFrozen[i] = 1 iff the layer's temperature is <= -1 and
\* swcsat[i] - swc[i] < 0.13 * width[i], on the current water content.
C4_FrozenAfterEveryStep ==
    (WaterStepDone \/ pc = "day_done") => FlagsConsistent

\* C4 amended: when soil_temperature has returned, every layer's flag is 1 iff the
\* temperature the call computed is <= -1 and swcsat[i] - swc[i] < 0.13 * width[i]
\* on the water content the water steps left; the water steps themselves do not
\* touch the flags.
C4_FrozenAfterSoilTemperature ==
    pc = "day_done" => FlagsConsistent

\* C4 witness: soil_temperature has returned on a day whose water steps changed
\* the water content of a layer that is frozen at the end of the day and was not
\* at its start (the flags were all 0 before the day's set_frozen_unfrozen, which
\* on the water content of the morning left this layer unfrozen)
C4_Witness ==
    /\ pc = "day_done"
    /\ \E i \in Lyrs(site.nlyrs) :
        /\ lyrFrozen[i] = 1
        /\ swc[i] # flow.swcBefore[i]
        /\ ~ LT(RSub(site.swcsat[i], flow.swcBefore[i]), RMul(<<13, 100>>, site.width[i]))

\* the temperature-grid arrays that soil_temperature_init builds
GridArrays(st) == <<st.tlyrs_by_slyrs, st.fcR, st.wpR, st.bDensityR, st.oldsTempR>>

T1Sparse ==
    RAdd(wth.airTemp,
         RMul(RMul(RMul(site.t1Param1, wth.pet), RSub(One, RDiv(wth.aet, wth.pet))),
              RSub(One, RDiv(wth.biomass, site.bmLimiter))))
T1Dense ==
    RAdd(wth.airTemp,
         RDiv(RMul(site.t1Param2, RSub(wth.biomass, site.bmLimiter)), site.t1Param3))

\* C8: after a call of soil_temperature, surfaceTemp[Today] is
\* surface_temperature_under_snow(airTemp, snow) if snowdepth > 0, else
\* airTemp + t1Param1*pet*(1 - aet/pet)*(1 - biomass/bmLimiter) if biomass <= bmLimiter,
\* else airTemp + t1Param2*(biomass - bmLimiter)/t1Param3; at biomass = bmLimiter both
\* snow-free formulas give airTemp.
C8_SurfaceTemperatureCases ==
    pc = "temp_done" =>
        /\ surfaceTemp[Today] =
              (IF GT(wth.snowdepth, Zero)
               THEN surface_temperature_under_snow(wth.airTemp, wth.snow, NaN)
               ELSE IF LE(wth.biomass, site.bmLimiter) THEN T1Sparse ELSE T1Dense)
        /\ EQ(wth.biomass, site.bmLimiter) =>
              T1Sparse = wth.airTemp /\ T1Dense = wth.airTemp

\* C8 witness: a second day, snow-free and with biomass = bmLimiter, after a day
\* under snow: the surface temperature is the air temperature, yesterday's the
\* temperature under the snow
C8_Witness ==
    /\ pc = "temp_done"
    /\ day = 2
    /\ wth.snowdepth = Zero
    /\ wth.biomass = site.bmLimiter
    /\ surfaceTemp[Today] = I(4) /\ wth.airTemp = I(4)
    /\ surfaceTemp[Yesterday] = <<-7, 2>>

\* the site's temperature grid is shallower than its soil profile
FatalInitError == LT(site.stMaxDepth, ProfileDepth)

\* C10: when the grid is shallower than the profile, soil_temperature computes
\* nothing after soil_temperature_init has reported the error: on the first day only
\* what precedes the initialisation is written (surfaceTemp[Today] = airTemp and the
\* frozen flags from yesterday's temperatures), sTemp and oldsTempR are not written,
\* and on later days nothing is written.
C10_FatalInitErrorAbortsDay ==
    [][(FatalInitError /\ pc' = "temp_done") =>
          /\ soil_temp_error' = 1
          /\ sTemp' = sTemp
          /\ stValues'.oldsTempR = stValues.oldsTempR
          /\ surfaceTemp' = (IF day = 0
                             THEN [surfaceTemp EXCEPT ![Today] = wth'.airTemp]
                             ELSE surfaceTemp)
          /\ lyrFrozen' = (IF day = 0
                           THEN set_frozen_unfrozen(site.nlyrs, sTemp, swc, site.swcsat,
                                                    site.width, lyrFrozen)
                           ELSE lyrFrozen)]_vars

\* the water in the layers 0 .. n - 1
TotalSwc(arr, n) == RSum(arr, 0, n)

\* C1: the sequence infiltrate_water_high, remove_from_soil (evaporation, then
\* transpiration), infiltrate_water_low, hydraulic_redistribution conserves water:
\* sum of swc before + pptleft = sum of swc after + drainout + standingWater +
\* the increase of aet (aet is 0 at the start of the day).
C1_WaterConserved ==
    pc = "hydred_done" =>
        RAdd(TotalSwc(flow.swcBefore, site.nlyrs), flow.pptleft)
            = RAdd(RAdd(RAdd(TotalSwc(swc, site.nlyrs), flow.drainout),
                        flow.standingWater), flow.aet)

\* swcmin <= arr[i] <= swcsat for every layer of the site
WithinBounds(arr) ==
    \A i \in Lyrs(site.nlyrs) :
        GE(arr[i], site.swcmin[i]) /\ LE(arr[i], site.swcsat[i])

\* C2: if swcmin[i] <= swc[i] <= swcsat[i] for every layer before the day, then the
\* same holds after each of infiltrate_water_high, remove_from_soil,
\* infiltrate_water_low and hydraulic_redistribution has returned.
C2_SwcWithinBounds ==
    (WaterStepDone /\ WithinBounds(flow.swcBefore)) => WithinBounds(swc)

\* the stability coefficient of grid layer k on the grid st, from the water
\* content vwcR of the grid: (86400 / deltaX^2) * cs[k] / (sh[k] * bDensityR[k])
AlphaAt(st, vwcR, k) ==
    LET pe == RDiv(RSub(vwcR[k], st.wpR[k]), RSub(st.fcR[k], st.wpR[k]))
        cs == RAdd(site.csParam1, RMul(pe, site.csParam2))
        sh == RAdd(vwcR[k], RMul(site.shParam, RSub(One, vwcR[k])))
    IN RDiv(RMul(RDiv(SEC_PER_DAY, RMul(site.stDeltaX, site.stDeltaX)), cs),
            RMul(sh, st.bDensityR[k]))

RECURSIVE AlphaFrom(_, _, _)
AlphaFrom(st, vwcR, k) ==
    IF k >= site.stNRGR THEN <<>>
    ELSE <<AlphaAt(st, vwcR, k)>> \o AlphaFrom(st, vwcR, k + 1)

\* alpha of the grid layers 0 .. nRgr - 1 (as the elements 1 .. nRgr of a
\* sequence) on the grid st and the current water content
Alpha(st) ==
    LET vwc == [i \in Lyrs(site.nlyrs) |-> RDiv(swc[i], site.width[i])]
        Of(vwcR) == AlphaFrom(st, vwcR, 0)
    IN Of(lyrSoil_to_lyrTemp(st.tlyrs_by_slyrs, site.nlyrs,
              Ext(site.width, site.nlyrs, site.behind.width),
              Ext(vwc, site.nlyrs, site.behind.val),
              site.stNRGR, site.stDeltaX, [i \in RgrIdx |-> NaN]))

\* C11: in a call of soil_temperature, if alpha[k] > 1.0 for some grid layer k then
\* soil_temp_error is 1 after the call and the call has still run to its end: the
\* grid temperatures are stored as the next day's old temperatures (the surface
\* value on top, meanAirTemp at the bottom and, on a built grid, each row by the
\* heat step old + alpha * (above - 2 * old + below)), the layer temperatures are
\* written and the frozen flags follow from them; if every alpha[k] <= 1.0 the
\* flag is as the first-call block left it (1 only if it was 1 or the
\* initialisation failed); a flag that is 1 stays 1.
C11_StabilityErrorContinues ==
    [][pc' = "temp_done" =>
          LET Holds(alpha) ==
              /\ soil_temp_error' =
                    (IF (\E k \in DOMAIN alpha : GT(alpha[k], One))
                        \/ soil_temp_error = 1
                        \/ (soil_temp_init = 0 /\ FatalInitError)
                     THEN 1 ELSE 0)
              /\ stValues'.oldsTempR[0] = surfaceTemp'[Today]
              /\ stValues'.oldsTempR[site.stNRGR + 1] = site.meanAirTemp
              /\ soil_temp_init = 1 =>
                    \A i \in 1 .. site.stNRGR :
                        \A old \in {stValues.oldsTempR[i]},
                           above \in {stValues'.oldsTempR[i - 1]},
                           below \in {stValues.oldsTempR[i + 1]} :
                        \A twice \in {RMul(I(2), old)} :
                        \A diff \in {RSub(above, twice)} :
                        \A part2 \in {RAdd(diff, below)} :
                        \A step \in {RMul(alpha[i], part2)} :
                            stValues'.oldsTempR[i] = RAdd(old, step)
              /\ sTemp' = lyrTemp_to_lyrSoil_temperature(stValues'.tlyrs_by_slyrs,
                              site.stNRGR, stValues'.depthsR, stValues'.oldsTempR,
                              site.nlyrs, stValues'.depths, site.width, sTemp)
              /\ \A i \in Lyrs(site.nlyrs) :
                    lyrFrozen'[i] = (IF LE(sTemp'[i], FREEZING_TEMP_C)
                                        /\ LT(RSub(site.swcsat[i], swc[i]),
                                              RMul(MIN_VWC_TO_FREEZE, site.width[i]))
                                     THEN 1 ELSE 0)
          IN \A alpha \in {Alpha(stValues')} : Holds(alpha)]_vars

\* C11 witness: the second day on a grid that was built without error, with one
\* grid layer above 1.0 and one not: the flag is set and the day's temperatures
\* are stored
C11_Witness ==
    /\ pc = "temp_done"
    /\ day = 2
    /\ ~ FatalInitError
    /\ soil_temp_error = 1
    /\ \E k, m \in 1 .. site.stNRGR :
          GT(Alpha(stValues)[k], One) /\ LE(Alpha(stValues)[m], One)
    /\ stValues.oldsTempR[0] = surfaceTemp[Today]
    /\ \A i \in Lyrs(site.nlyrs) : IsFinite(sTemp[i])

\* the locals of the hydraulic_redistribution call that led to the present
\* state, as the call computes them from the water content it was given
HydLocals ==
    LET n == site.nlyrs
        Of(swp) ==
            [nlyrs |-> n, swc |-> flow.swcBefore, swcwp |-> site.swcwp,
             lyrRootCo |-> site.lyrRootCo, maxCondroot |-> site.maxCondroot,
             lyrFrozen |-> lyrFrozen, swp |-> swp,
             swpwp |-> [i \in Lyrs(n) |-> SWCbulk2SWPmatric(Zero, site.swcwp[i], i)],
             relCondroot |-> [i \in Lyrs(n) |->
                 fmin(One, fmax(Zero,
                     RDiv(One, RAdd(One, powe(RDiv(swp[i], site.swp50), site.shapeCond)))))]]
    IN Of([i \in Lyrs(n) |-> SWCbulk2SWPmatric(Zero, flow.swcBefore[i], i)])

\* H[j][i] = -H[i][j] for all layers i, j
Antisymmetric(mat) ==
    \A i, j \in Lyrs(site.nlyrs) : EQ(mat[j][i], RNeg(mat[i][j]))

\* C12: hydraulic_redistribution only moves water between layers: the pair
\* matrix is antisymmetric before and after the available-water scaling, the
\* hydred of all layers sum to 0 and the sum of swc over the layers is the same
\* before and after the call
C12_OnlyMovesWater ==
    pc = "hydred_done" =>
        \A e \in {HydLocals} : \A pairs \in {hydredmat_pairs(e)} :
        \A scaled \in {hydredmat_scale(e, 0, pairs)} :
            /\ Antisymmetric(pairs)
            /\ Antisymmetric(scaled)
            /\ EQ(RSum(flow.hydred, 0, site.nlyrs), Zero)
            /\ EQ(TotalSwc(swc, site.nlyrs), TotalSwc(flow.swcBefore, site.nlyrs))

\* the call gave every layer a finite hydred
HydredFinite == \A i \in Lyrs(site.nlyrs) : IsFinite(flow.hydred[i])

\* C13: after a hydraulic_redistribution call with 0 <= scale <= 1 no layer has
\* lost more than its water above wilting point:
\* swc_before[i] - swc_after[i] <= max(0, swc_before[i] - swcwp[i]); stated for
\* the calls whose hydred are all finite
C13_LossWithinAvailableWater ==
    pc = "hydred_done" /\ HydredFinite =>
        \A i \in Lyrs(site.nlyrs) :
            LE(RSub(flow.swcBefore[i], swc[i]),
               fmax(Zero, RSub(flow.swcBefore[i], site.swcwp[i])))

\* C14: hydraulic_redistribution moves no water into or out of the top layer:
\* hydred[0] = 0 and swc[0] is what it was before the call
C14_TopLayerExempt ==
    pc = "hydred_done" => flow.hydred[0] = Zero /\ swc[0] = flow.swcBefore[0]

\* C14 witness: a call on unfrozen layers with half of the roots in the top
\* layer, whose water content differs from the second layer's, and in which
\* deeper layers exchanged water
C14_Witness ==
    /\ pc = "hydred_done"
    /\ site.nlyrs >= 3
    /\ GT(site.lyrRootCo[0], Zero)
    /\ GT(site.lyrRootCo[1], Zero)
    /\ \A i \in Lyrs(site.nlyrs) : lyrFrozen[i] = 0
    /\ ~ EQ(flow.swcBefore[0], flow.swcBefore[1])
    /\ HydredFinite
    /\ \E i \in Lyrs(site.nlyrs) : GT(flow.hydred[i], Zero)
    /\ flow.hydred[0] = Zero
    /\ swc[0] = flow.swcBefore[0]

\* C15: of two unfrozen layers below the top layer with equal root fractions,
\* the deeper one wetter and at least one above wilting point, the shallower
\* layer gains and the deeper one loses the same amount: hydred[1] > 0 and
\* hydred[2] = -hydred[1] in a profile of three layers
C15_WaterMovesToDrierLayer ==
    /\ pc = "hydred_done"
    /\ site.nlyrs = 3
    /\ lyrFrozen[1] = 0 /\ lyrFrozen[2] = 0
    /\ site.lyrRootCo[1] = site.lyrRootCo[2]
    /\ GT(site.lyrRootCo[1], Zero)
    /\ GT(flow.swcBefore[2], flow.swcBefore[1])
    /\ (GT(flow.swcBefore[1], site.swcwp[1]) \/ GT(flow.swcBefore[2], site.swcwp[2]))
    => /\ GT(flow.hydred[1], Zero)
       /\ EQ(flow.hydred[2], RNeg(flow.hydred[1]))

\* a SW_MKV_today call has returned
MkvTodayReturned == mkv.status = "ready" /\ mkv.doy0 > 0

\* C16: after every SW_MKV_today call tmin <= tmax and rain >= 0, and
\* tmin <= tmax holds after the bivariate-normal draw as well as after the
\* wet/dry correction
C16_TminBelowTmaxRainNotNegative ==
    MkvTodayReturned =>
        /\ LE(mkv.mv.tmin, mkv.mv.tmax)
        /\ LE(mkv.tmin, mkv.tmax)
        /\ GE(mkv.rain, Zero)

\* a step of SW_MKV_today, whether it returns or ends in the fatal error
MkvTodayStep == mkv.status = "ready" /\ mkv'.doy0 = mkv.doy0 + 1

\* the stored parameters of the wet-wet chain: wetprob = 1, dryprob = 0,
\* avg_ppt = 1 and std_ppt = 0 on every day
WetChain ==
    \A d \in DoySet :
        /\ SW_Markov.wetprob[d] = One /\ SW_Markov.dryprob[d] = Zero
        /\ SW_Markov.avg_ppt[d] = One /\ SW_Markov.std_ppt[d] = Zero

\* C17: the probability a SW_MKV_today call uses is wetprob of the day when
\* yesterday's rain is > 0 and dryprob of the day otherwise; with the
\* parameters of the wet-wet chain a day after a day with rain > 0 has rain = 1,
\* whatever is drawn
C17_WetChainNeverDries ==
    [][MkvTodayStep =>
          /\ mkv'.prob = (IF GT(mkv.rain, Zero) THEN SW_Markov.wetprob[mkv.doy0]
                          ELSE SW_Markov.dryprob[mkv.doy0])
          /\ WetChain /\ GT(mkv.rain, Zero) => mkv'.rain = One]_vars

\* C17 witness: the wet-wet chain after three days of which the first was dry
\* and the two after it had rain = 1
C17_Witness ==
    /\ WetChain
    /\ MkvTodayReturned
    /\ mkv.doy0 = 3
    /\ SW_Markov.ppt_events = 2
    /\ mkv.rain = One
    /\ mkv.prob = One

\* C18: no weekly covariance matrix that violates var_min >= cov^2 / var_max
\* is stored in SW_Markov.v_cov; stated for the weeks with var_max > 0
C18_CauchySchwarzOnInput ==
    \A w \in DOMAIN SW_Markov.v_cov :
        GT(SW_Markov.v_cov[w][1][1], Zero) =>
            GE(SW_Markov.v_cov[w][2][2],
               RDiv(RMul(SW_Markov.v_cov[w][2][1], SW_Markov.v_cov[w][2][1]),
                    SW_Markov.v_cov[w][1][1]))

\* the week's variance of tmax, covariance and variance of tmin that the
\* SW_MKV_today call of the present day passes to mvnorm
WeekVarMax == SW_Markov.v_cov[doy2week(mkv.doy0 + 1)][1][1]
WeekCovar == SW_Markov.v_cov[doy2week(mkv.doy0 + 1)][2][1]
WeekVarMin == SW_Markov.v_cov[doy2week(mkv.doy0 + 1)][2][2]

\* (cov / sd_max)^2 of these
WeekCovarSq ==
    RMul(RDiv(WeekCovar, sqrt(WeekVarMax)), RDiv(WeekCovar, sqrt(WeekVarMax)))

\* C19: a SW_MKV_today call ends in the fatal error of mvnorm, with tmax and
\* tmin not written, whenever (cov / sd_max)^2 > var_min for sd_max > 0; when
\* var_min equals (cov / sd_max)^2 the call returns and vc11 = 0; when
\* sd_max = 0 vc10 = 0
C19_BadCovarianceFatalAtRunTime ==
    [][MkvTodayStep =>
          /\ GT(sqrt(WeekVarMax), Zero) /\ GT(WeekCovarSq, WeekVarMin) =>
                /\ mkv'.status = "fatal" /\ mkv'.mv.fatal
                /\ mkv'.tmax = mkv.tmax /\ mkv'.tmin = mkv.tmin
          /\ GT(sqrt(WeekVarMax), Zero) /\ EQ(WeekVarMin, WeekCovarSq) =>
                /\ mkv'.status = "ready"
                /\ mkv'.mv.vc11 = Zero
                /\ mkv'.mv.tmin =
                       fmin(mkv'.mv.tmax,
                            RAdd(RMul(mkv'.mv.vc10, mkv'.z1),
                                 SW_Markov.u_cov[doy2week(mkv.doy0 + 1)][2]))
          /\ EQ(sqrt(WeekVarMax), Zero) => mkv'.mv.vc10 = Zero]_vars

\* C19 witness: the call of the first day ended in the fatal error of mvnorm
\* after it had generated the day's rain: the week's (cov / sd_max)^2 is above
\* var_min, and tmax and tmin are as the caller had them
C19_Witness ==
    /\ mkv.status = "fatal"
    /\ mkv.doy0 = 1
    /\ mkv.mv.fatal
    /\ GT(SW_Markov.v_cov[0][1][1], Zero)
    /\ GT(RMul(mkv.mv.vc10, mkv.mv.vc10), SW_Markov.v_cov[0][2][2])
    /\ GT(mkv.rain, Zero)
    /\ mkv.tmax = Zero
    /\ mkv.tmin = Zero

\* what a process that runs only the site of the last call holds after the
\* same calls for that site
OwnOfCurrent == sites.of[sites.cur].own

\* C20: after a soil_temperature call for a site, in a process that also calls
\* it for another site, the temperature grid and mapping matrix, the
\* previous-day temperatures, the frozen flags, the initialisation latch, the
\* error flag and the layer temperatures are those that the site's own inputs
\* alone produce
C20_SitesDoNotInterfere ==
    pc = "site_done" =>
        /\ stValues = OwnOfCurrent.stValues
        /\ lyrFrozen = OwnOfCurrent.lyrFrozen
        /\ soil_temp_init = OwnOfCurrent.soil_temp_init
        /\ soil_temp_error = OwnOfCurrent.soil_temp_error
        /\ sTemp = OwnOfCurrent.sTemp

\* the layer temperatures are within 0.1 C of the sub-soil temperature
NearConstant ==
    \A i \in Lyrs(site.nlyrs) :
        /\ LE(RSub(sTemp[i], site.meanAirTemp), <<1, 10>>)
        /\ GE(RSub(sTemp[i], site.meanAirTemp), <<-1, 10>>)

\* C21: under constant weather with the air at the sub-soil temperature, no snow
\* and no water input, every layer temperature is within 0.1 C of the sub-soil
\* temperature after 365 daily soil_temperature calls
C21_ConvergesToConstant ==
    (pc = "year_done" /\ day >= 365) => NearConstant

\* a profile uniformly at the sub-soil temperature under a surface at that
\* temperature stays exactly there on every day
UniformStays ==
    (pc = "year_done" /\ wth.biomass = site.bmLimiter) =>
        /\ \A i \in Lyrs(site.nlyrs) : sTemp[i] = site.meanAirTemp
        /\ \A k \in 0 .. (site.stNRGR + 1) : stValues.oldsTempR[k] = site.meanAirTemp

\* the sum of column j of the correspondence matrix over the grid rows i .. nRgr
RECURSIVE ColumnSum(_, _)
ColumnSum(j, i) ==
    IF i > site.stNRGR THEN Zero
    ELSE RAdd(stValues.tlyrs_by_slyrs[i][j], ColumnSum(j, i + 1))

\* the sum of the entries >= 0 of the grid rows i .. nRgr, columns 0 .. nlyrs
RECURSIVE NonNegativeSum(_, _)
NonNegativeSum(i, j) ==
    IF i > site.stNRGR THEN Zero
    ELSE IF j > site.nlyrs THEN NonNegativeSum(i + 1, 0)
    ELSE RAdd(IF GE(stValues.tlyrs_by_slyrs[i][j], Zero)
              THEN stValues.tlyrs_by_slyrs[i][j] ELSE Zero,
              NonNegativeSum(i, j + 1))

\* C22: after a successful soil_temperature_init every column j < nlyrs of
\* tlyrs_by_slyrs sums to width[j], the entries >= 0 sum to the profile depth, and
\* every grid row that lies wholly below the profile holds -deltaX in column nlyrs
C22_MatrixPartitionsProfile ==
    pc = "init_ok" =>
        /\ \A j \in Lyrs(site.nlyrs) : ColumnSum(j, 0) = site.width[j]
        /\ NonNegativeSum(0, 0) = ProfileDepth
        /\ \A i \in 0 .. site.stNRGR :
              GE(RMul(I(i), site.stDeltaX), ProfileDepth) =>
                 stValues.tlyrs_by_slyrs[i][site.nlyrs] = RNeg(site.stDeltaX)

\* a profile of 5 and 20 cm on a grid of three rows of 15 cm: the second layer
\* is split over the rows 0 and 1, row 1 reaches 5 cm below the profile, row 2
\* lies wholly below it
C22_Witness ==
    /\ pc = "init_ok"
    /\ site.nlyrs = 2 /\ site.width[0] = I(5) /\ site.width[1] = I(20)
    /\ site.stNRGR = 2
    /\ stValues.tlyrs_by_slyrs[0][0] = I(5)
    /\ stValues.tlyrs_by_slyrs[0][1] = I(10)
    /\ stValues.tlyrs_by_slyrs[1][1] = I(10)
    /\ stValues.tlyrs_by_slyrs[1][2] = I(-5)
    /\ stValues.tlyrs_by_slyrs[2][2] = I(-15)

\* the state the first-call block of the call just made left: the grid as
\* soil_temperature_init built it on the first call, stValues as it was on later
\* calls
GridAtStart == soil_temperature_first(TempGlobals, wth' @@ [junk |-> NaN], swc, sTemp, site)

\* C23: after a successful initialisation the bottom node nRgr + 1 of the grid
\* holds meanAirTemp; after every daily call the bottom node holds meanAirTemp, the
\* top node 0 holds the day's surface temperature T1, and every interior node k
\* holds old[k] + alpha[k] * (new[k - 1] - 2 * old[k] + old[k + 1])
C23_GridBoundaryConditions ==
    [][pc' = "temp_done" =>
          \A f \in {GridAtStart}, alpha \in {Alpha(stValues')} :
              /\ (soil_temp_init = 0 /\ ~FatalInitError) =>
                    f.st.oldsTempR[site.stNRGR + 1] = site.meanAirTemp
              /\ stValues'.oldsTempR[site.stNRGR + 1] = site.meanAirTemp
              /\ \E junk \in LocalJunkSet :
                    stValues'.oldsTempR[0] = SurfaceT1(wth' @@ [junk |-> junk], site)
              /\ \A k \in 1 .. site.stNRGR :
                    \A twice \in {RMul(I(2), f.st.oldsTempR[k])} :
                    \A diff \in {RSub(stValues'.oldsTempR[k - 1], twice)} :
                    \A part2 \in {RAdd(diff, f.st.oldsTempR[k + 1])} :
                        stValues'.oldsTempR[k] =
                            RAdd(f.st.oldsTempR[k], RMul(alpha[k], part2))]_vars

\* C23 witness: the second day on a grid of two interior nodes built without
\* error: the surface temperature of a day under snow on top, meanAirTemp at the
\* bottom, and interior nodes that moved
C23_Witness ==
    /\ pc = "temp_done" /\ day = 2
    /\ site.stNRGR = 2 /\ ~FatalInitError
    /\ GT(wth.snowdepth, Zero)
    /\ stValues.oldsTempR[0] = surfaceTemp[Today]
    /\ surfaceTemp[Today] # surfaceTemp[Yesterday]
    /\ stValues.oldsTempR[3] = site.meanAirTemp
    /\ IsFinite(stValues.oldsTempR[1]) /\ IsFinite(stValues.oldsTempR[2])
    /\ stValues.oldsTempR[1] # stValues.oldsTempR[2]

\* the sum of coeff[i] / SWP[i] over the layers, on the water content before
\* the call
SumSwp(coeff) ==
    RSum([i \in Lyrs(site.nlyrs) |->
             RDiv(coeff[i], SWCbulk2SWPmatric(Zero, swc[i], i))], 0, site.nlyrs)

\* one call of remove_from_soil seen from outside: qty is the output array after
\* the call
RemovalContract(qty, coeff, rate) ==
    /\ \A i \in Lyrs(site.nlyrs) : lyrFrozen[i] = 1 => swc'[i] = swc[i]
    /\ ZRO(SumSwp(coeff)) => (swc' = swc /\ flow' = flow)
    /\ ~ZRO(SumSwp(coeff)) =>
        /\ \A i \in Lyrs(site.nlyrs) :
               lyrFrozen[i] = 0 =>
                   /\ GE(qty[i], Zero)
                   /\ LE(qty[i], fmax(Zero, RSub(swc[i], site.swcmin[i])))
                   /\ swc'[i] = RSub(swc[i], qty[i])
        /\ \A taken \in {RSum(qty, 0, site.nlyrs)} :
               /\ RSub(flow'.aet, flow.aet) = taken
               /\ RSub(RSum(swc, 0, site.nlyrs), RSum(swc', 0, site.nlyrs)) = taken
               /\ LE(taken, rate)

\* C24: remove_from_soil leaves the water of a frozen layer alone, takes from
\* every unfrozen layer an amount qty[i] between 0 and max(0, swc[i] - swcmin[i]),
\* and adds to aet exactly the sum of qty over all layers, which is the total
\* decrease of swc and at most the rate; with a zero sum of coeff / SWP the call
\* changes nothing.
C24_RemoveFromSoil ==
    [][/\ pc' = "evap_done" =>
            RemovalContract(flow'.evap, site.evap_coeff, flow.evapRate)
       /\ pc' = "transp_done" =>
            RemovalContract(flow'.transp, site.transp_coeff, flow.transpRate)]_vars

\* the same for the calls that find zeros in the output array
C24_OnZeroedOutput ==
    [][/\ (pc' = "evap_done" /\ \A i \in Lyrs(site.nlyrs) : flow.evap[i] = Zero) =>
            RemovalContract(flow'.evap, site.evap_coeff, flow.evapRate)
       /\ (pc' = "transp_done" /\ \A i \in Lyrs(site.nlyrs) : flow.transp[i] = Zero) =>
            RemovalContract(flow'.transp, site.transp_coeff, flow.transpRate)]_vars

\* the percolation of an unfrozen layer i that holds w: the saturated one of
\* infiltrate_water_high, the unsaturated one of infiltrate_water_low
UnfrozenPercolation(high, i, w) ==
    IF high
    THEN fmax(Zero, RMul(RSub(One, site.impermeability[i]), RSub(w, site.swcfc[i])))
    ELSE IF LE(w, site.swcmin[i]) THEN Zero
    ELSE RMul(RSub(One, site.impermeability[i]),
              fmin(RSub(w, site.swcmin[i]),
                   IF GT(w, site.swcfc[i]) THEN site.sdrainpar
                   ELSE RMul(site.sdrainpar,
                             exp(RDiv(RMul(RSub(w, site.swcfc[i]), site.sdraindpth),
                                      site.width[i])))))

\* d[i], d[i + 1], ... when layer i receives inflow from the layer above: a
\* frozen layer passes a hundredth of what it would pass unfrozen
RECURSIVE HundredthWhenFrozen(_, _, _, _)
HundredthWhenFrozen(high, w, i, inflow) ==
    IF i >= site.nlyrs THEN [j \in {} |-> Zero]
    ELSE LET Down(d) == (i :> d) @@ HundredthWhenFrozen(high, w, i + 1, d)
         IN Down(RMul(IF lyrFrozen[i] = 1 THEN <<1, 100>> ELSE One,
                      UnfrozenPercolation(high, i, RAdd(w[i], inflow))))

\* the arrays as the percolation loop of infiltrate_water_high leaves them
AfterHighLoop ==
    infiltrate_water_high_for(
        [nlyrs |-> site.nlyrs, swcfc |-> site.swcfc,
         impermeability |-> site.impermeability, lyrFrozen |-> lyrFrozen],
        0,
        [swc |-> [Ext(swc, site.nlyrs, flow.swcBehind) EXCEPT ![0] = RAdd(@, flow.pptleft)],
         drain |-> flow.drain, drainout |-> flow.drainout, standingWater |-> Zero])

\* the arrays as the percolation loop of infiltrate_water_low leaves them
AfterLowLoop ==
    infiltrate_water_low_for(
        [nlyrs |-> site.nlyrs, sdrainpar |-> site.sdrainpar,
         sdraindpth |-> site.sdraindpth, swcfc |-> site.swcfc, width |-> site.width,
         swcmin |-> site.swcmin, impermeability |-> site.impermeability,
         lyrFrozen |-> lyrFrozen],
        0,
        [swc |-> Ext(swc, site.nlyrs, flow.swcBehind), drain |-> flow.drain,
         drainout |-> flow.drainout, standingWater |-> flow.standingWater])

\* no layer and no cell behind the layers is above saturation: the upward
\* sweep finds nothing to push
NothingToPush(s) ==
    \A j \in 0 .. site.nlyrs :
        ~GT(s.swc[j], Ext(site.swcsat, site.nlyrs, site.behind.swcsat)[j])

\* C25: in both percolation functions d[i] of a frozen layer is exactly 0.01 times
\* what the same layer would pass unfrozen, the throughfall is added to layer 0
\* in full, and with layer 0 frozen and at saturation at least the throughfall
\* minus that hundredth ends in standingWater.
C25_FrozenConductsAtOnePercent ==
    [][/\ pc' = "high_done" =>
            \A r \in {AfterHighLoop},
               d \in {HundredthWhenFrozen(TRUE, [swc EXCEPT ![0] = RAdd(@, flow.pptleft)], 0, Zero)} :
                /\ \A i \in Lyrs(site.nlyrs) : r.drain[i] = d[i]
                /\ site.nlyrs > 1 => r.swc[0] = RSub(RAdd(swc[0], flow.pptleft), d[0])
                /\ NothingToPush(r) => flow'.drain = d
                /\ (lyrFrozen[0] = 1 /\ swc[0] = site.swcsat[0]) =>
                       GE(flow'.standingWater, RSub(flow.pptleft, d[0]))
       /\ pc' = "low_done" =>
            \A r \in {AfterLowLoop}, d \in {HundredthWhenFrozen(FALSE, swc, 0, Zero)} :
                /\ \A i \in Lyrs(site.nlyrs) : RSub(r.drain[i], flow.drain[i]) = d[i]
                /\ NothingToPush(r) =>
                       \A i \in Lyrs(site.nlyrs) :
                           RSub(flow'.drain[i], flow.drain[i]) = d[i]]_vars

\* C25 witness: a single frozen, saturated layer under 2 cm of throughfall passes
\* 0.01 * (4 + 2 - 2) = 0.04 in the saturated and 0.01 * 0.25 in the unsaturated
\* percolation, and 2 - 0.04 stands on the surface
C25_Witness ==
    /\ pc = "low_done"
    /\ site.nlyrs = 1
    /\ lyrFrozen[0] = 1
    /\ site.impermeability[0] = Zero
    /\ flow.swcBefore[0] = site.swcsat[0]
    /\ flow.pptleft = I(2)
    /\ flow.drain[0] = RAdd(<<1, 25>>, <<1, 400>>)
    /\ flow.standingWater = <<49, 25>>

\* the upward sweep over the layers N - 1 down to 0 only, applied to the arrays s
\* a percolation loop left
SweepOverLayers(s) ==
    push_upwards(Ext(site.swcsat, site.nlyrs, site.behind.swcsat), site.nlyrs - 1, s)

\* a percolation function has left what the sweep over the layers N - 1 .. 0
\* leaves, and the cell behind the last layer is as it was
SweptWithinLayers(s) ==
    \A r \in {SweepOverLayers(s)} :
        /\ swc' = Front(r.swc, site.nlyrs)
        /\ flow'.drain = r.drain
        /\ flow'.drainout = r.drainout
        /\ flow'.standingWater = r.standingWater
        /\ flow'.swcBehind = flow.swcBehind

\* C26: the upward over-saturation sweep of infiltrate_water_high and
\* infiltrate_water_low visits exactly the layers j = N - 1 down to 0 and neither
\* reads nor writes swc, swcsat or drain outside 0 .. N - 1.
C26_SweepStaysInsideProfile ==
    [][/\ pc' = "high_done" => SweptWithinLayers(AfterHighLoop)
       /\ pc' = "low_done" => SweptWithinLayers(AfterLowLoop)]_vars

\* the sweep stays inside the profile on the days on which the cell behind the
\* last layer is not above the cell behind swcsat
C26_HarmlessBehind ==
    [][~GT(flow.swcBehind, site.behind.swcsat) =>
          /\ pc' = "high_done" => SweptWithinLayers(AfterHighLoop)
          /\ pc' = "low_done" => SweptWithinLayers(AfterLowLoop)]_vars

\* layer i held more water than its wilting point when the call began
WetterThanWiltingPoint(i) == GT(flow.swcBefore[i], site.swcwp[i])

\* C27: hydraulic_redistribution exchanges no water between a pair of layers
\* when either of them is frozen or when neither is wetter than its wilting
\* point; the swc of a frozen layer is unchanged and its hydred is 0.
C27_NoExchangeWhenFrozenOrDry ==
    pc = "hydred_done" =>
        \A e \in {HydLocals} : \A scaled \in {hydredmat_scale(e, 0, hydredmat_pairs(e))} :
            /\ \A i, j \in Lyrs(site.nlyrs) :
                   (i < j /\ (\/ lyrFrozen[i] = 1
                              \/ lyrFrozen[j] = 1
                              \/ (~WetterThanWiltingPoint(i) /\ ~WetterThanWiltingPoint(j)))) =>
                       scaled[i][j] = Zero /\ scaled[j][i] = Zero
            /\ \A i \in Lyrs(site.nlyrs) :
                   lyrFrozen[i] = 1 => swc[i] = flow.swcBefore[i] /\ flow.hydred[i] = Zero

\* C27 witness: of four layers the three below the top hold roots; the second
\* is frozen and wet, the two below it are not wetter than the wilting point and
\* differ in water content, and the call moved no water
C27_Witness ==
    /\ pc = "hydred_done"
    /\ site.nlyrs = 4
    /\ \A i \in 1 .. 3 : GT(site.lyrRootCo[i], Zero)
    /\ lyrFrozen[1] = 1
    /\ WetterThanWiltingPoint(1)
    /\ ~WetterThanWiltingPoint(2) /\ ~WetterThanWiltingPoint(3)
    /\ flow.swcBefore[2] # flow.swcBefore[3]
    /\ flow.hydred = [i \in Lyrs(4) |-> Zero]
    /\ swc = flow.swcBefore

\* what soil_temperature_init builds from the site: the mapping matrix, the
\* depths of the layers and of the grid, and the projected soil properties
BuiltGrid(st) == <<st.tlyrs_by_slyrs, st.depths, st.depthsR, st.fcR, st.wpR, st.bDensityR>>

\* C28: over the soil_temperature calls that start with soil_temp_init = 0 the
\* grid is built once: soil_temperature_init runs on the first call and on no
\* later one (the latch goes 0 -> 1 and never back) and the mapping matrix, the
\* depths and fcR, wpR, bDensityR are the same after every later call; the
\* fusion-pool latch is set on the first call, and the inactive freeze/thaw
\* adjustment reports 'not adjusted' and leaves sTemp as the grid gave it.
C28_GridBuiltOnce ==
    [][pc' = "temp_done" =>
          /\ soil_temp_init' = 1
          /\ fusion_pool_init' = 1
          /\ (day = 0) = (soil_temp_init = 0)
          /\ (day = 0) = (fusion_pool_init = 0)
          /\ soil_temp_init = 1 =>
                /\ GridAtStart.st = stValues
                /\ BuiltGrid(stValues') = BuiltGrid(stValues)
          /\ soil_temp_init = 0 => BuiltGrid(stValues') = BuiltGrid(GridAtStart.st)
          /\ stValues'.oldsFusionPool_actual =
                 [j \in LyrIdx |-> IF day = 0 /\ j < site.nlyrs THEN Zero
                                   ELSE stValues.oldsFusionPool_actual[j]]
          /\ adjust_Tsoil_by_freezing_and_thawing(stValues, fusion_pool_init,
                                                  site.nlyrs).sFadjusted_sTemp = 0
          /\ sTemp' = lyrTemp_to_lyrSoil_temperature(stValues'.tlyrs_by_slyrs,
                          site.stNRGR, stValues'.depthsR, stValues'.oldsTempR,
                          site.nlyrs, stValues'.depths, site.width, sTemp)]_vars

\* C28 witness: the second call on a site whose grid was built on the first:
\* both latches are set, the matrix maps the two layers, and the grid
\* temperatures have moved since
C28_Witness ==
    /\ pc = "temp_done"
    /\ day = 2
    /\ ~FatalInitError
    /\ site.nlyrs = 2
    /\ soil_temp_init = 1
    /\ fusion_pool_init = 1
    /\ stValues.tlyrs_by_slyrs[0][0] = site.width[0]
    /\ stValues.depths[1] = ProfileDepth
    /\ stValues.oldsTempR[1] # sTemp[0]
    /\ wth.airTemp = I(-10)

\* the ledger of one percolation call: every layer changed by what came in from
\* above (for the top layer the throughfall less what went to standingWater)
\* less what the call added to drain below it, and the drain below the last
\* layer is drainout
DrainLedger(ppt, drained, stood) ==
    /\ \A i \in Lyrs(site.nlyrs) :
           RSub(swc'[i], swc[i]) =
               RSub(IF i = 0 THEN RSub(ppt, stood) ELSE drained[i - 1], drained[i])
    /\ flow'.drain[site.nlyrs - 1] = flow'.drainout

\* the ledger of the infiltrate_water_high or infiltrate_water_low call just made
DrainLedgerOfStep ==
    /\ pc' = "high_done" =>
           DrainLedger(flow.pptleft, flow'.drain, flow'.standingWater)
    /\ pc' = "low_done" =>
           DrainLedger(Zero,
                       [i \in Lyrs(site.nlyrs) |-> RSub(flow'.drain[i], flow.drain[i])],
                       RSub(flow'.standingWater, flow.standingWater))

\* C29: drain is the net downward flux below each layer: after
\* infiltrate_water_high and again after infiltrate_water_low every layer has
\* swc_after[i] - swc_before[i] = inflow[i] - drain[i] with inflow[0] = pptleft -
\* standingWater and inflow[i] = drain[i - 1], and drain[N - 1] = drainout.
C29_DrainIsNetDownwardFlux == [][DrainLedgerOfStep]_vars

\* the ledger closes on the days that begin with the cell behind the last layer
\* not above the cell behind swcsat
C29_LedgerWithoutOverrun ==
    [][~GT(site.behind.swc, site.behind.swcsat) => DrainLedgerOfStep]_vars

\* the grid temperatures sTempR[0 .. nRgr + 1] the call just made computed, f
\* being the state its first-call block left
ComputedToday(f, junk) ==
    soil_temperature_grid(f, SurfaceT1(wth' @@ [junk |-> junk], site),
                          wth' @@ [junk |-> junk], swc, site).sTempR

\* C30: only the previous day's temperatures cross the day boundary: the old
\* grid temperatures a call after the first works on (oldsTempR, nodes
\* 0 .. nRgr + 1) are those the call of the day before computed and stored,
\* surfaceTemp[Yesterday] is the surfaceTemp[Today] of the day before (on the
\* first call the day's air temperature), and the frozen flags that are found
\* on the next day are those set_frozen_unfrozen wrote at the end of the call
\* from the day's new layer temperatures.
C30_OnlyYesterdayCrossesDays ==
    [][pc' = "temp_done" =>
          \E junk \in LocalJunkSet :
          \A f \in {soil_temperature_first(TempGlobals, wth' @@ [junk |-> junk],
                                           swc, sTemp, site)} :
          \A today \in {ComputedToday(f, junk)} :
              /\ soil_temp_init = 1 =>
                    /\ f.st.oldsTempR = stValues.oldsTempR
                    /\ f.lyrFrozen = lyrFrozen
              /\ \A k \in 0 .. (site.stNRGR + 1) : stValues'.oldsTempR[k] = today[k]
              /\ surfaceTemp'[Yesterday] =
                     (IF soil_temp_init = 0 THEN wth'.airTemp ELSE surfaceTemp[Today])
              /\ surfaceTemp'[Today] = today[0]
              /\ lyrFrozen' = set_frozen_unfrozen(site.nlyrs, sTemp', swc, site.swcsat,
                                                  site.width, f.lyrFrozen)
              /\ \A i \in Lyrs(site.nlyrs) :
                     lyrFrozen'[i] = (IF /\ LE(sTemp'[i], I(-1))
                                         /\ LT(RSub(site.swcsat[i], swc[i]),
                                               RMul(<<13, 100>>, site.width[i]))
                                      THEN 1 ELSE 0)]_vars

\* C30 witness: after the second day, a day without snow that followed a cold
\* day under snow: yesterday's surface temperature is below today's, the grid
\* holds today's surface temperature at node 0 and meanAirTemp at the bottom
\* node, and the top layer is warmer than -1 C and not frozen
C30_Witness ==
    /\ pc = "temp_done"
    /\ day = 2
    /\ ~FatalInitError
    /\ wth.snowdepth = Zero
    /\ LT(surfaceTemp[Yesterday], I(-1))
    /\ GT(surfaceTemp[Today], Zero)
    /\ stValues.oldsTempR[0] = surfaceTemp[Today]
    /\ stValues.oldsTempR[site.stNRGR + 1] = site.meanAirTemp
    /\ lyrFrozen[0] = 0
    /\ GT(sTemp[0], I(-1))

====
